---- MODULE Spec2Model ----
(***************************************************************************)
(* Slot tables of the raylib FFI wrappers (src/src/wrappers).  Each table  *)
(* is a C array of slots with an occupancy flag; a handle is the index of  *)
(* a slot.  The underlying library is modelled as an environment that      *)
(* hands out native objects (or a zero object on failure) and records      *)
(* every call the wrappers make into it.                                   *)
(*                                                                         *)
(* C values are modelled as integers: bool is 0/1, a void return is 0, a   *)
(* pointer is 0 (NULL) or a positive address, floats are whole numbers.    *)
(***************************************************************************)
EXTENDS Integers, Sequences, FiniteSets, TLC

(* ---- bounds ---------------------------------------------------------- *)
\* Table capacities, scaled down from the #define values of the source
\* (256 textures, 64 render textures, 32 fonts, 32 shaders, 64 models,
\* 32 animation sets) so that a full table is reachable.
MAX_TEXTURES == 2
MAX_RENDER_TEXTURES == 2
MAX_FONTS == 2
MAX_SHADER_SLOTS == 2
MAX_MODELS == 2
MAX_ANIMATIONS == 2
\* Entries of a shader's uniform-location cache, scaled down from 32.
MAX_LOCATION_CACHE == 2
\* Number of native objects the library can keep alive at one time.
MaxLive == 3

NativeIds == 1..MaxLive

NULL == "NULL"

Min(S) == CHOOSE x \in S : \A y \in S : x <= y

(* ---- state ----------------------------------------------------------- *)
VARIABLES
  textureSlots,        \* texture-wrapper.c: static TextureSlot textureSlots[]
  renderTextureSlots,  \* render-texture-wrapper.c: renderTextureSlots[]
  fontSlots,           \* font-wrapper.c: fontSlots[]
  shaderSlots,         \* shader-wrapper.c: shaderSlots[]
  modelSlots,          \* model-wrapper.c: modelSlots[]
  animationSlots,      \* model-wrapper.c: animationSlots[]
  live,                \* native objects created by the library and not yet unloaded
  call,                \* the wrapper call that ran last: [op, slot, args]
  ret,                 \* its return value
  outBuffer,           \* the cells it wrote into the caller's output buffer, in order
  nativeCalls,         \* the calls it made into the library, in order
  lastCollision,       \* ray-collision-wrapper.c: static RayCollision lastCollision
  unit,                \* the part of the wrappers whose functions the host calls in this run
  input,               \* what the host of SpecTables and SpecWrap does in a run
  threads,             \* SpecThreads: per host thread, where it is in its call and its locals
  handedOut,           \* history: per kind, handles returned by a load and not yet released
  balance              \* history: per kind, loads that returned a handle minus releases

tables == <<textureSlots, renderTextureSlots, fontSlots, shaderSlots, modelSlots,
            animationSlots>>
history == <<handedOut, balance>>
vars == <<textureSlots, renderTextureSlots, fontSlots, shaderSlots, modelSlots,
          animationSlots, live, call, ret, outBuffer, nativeCalls, lastCollision, unit,
          input, threads, handedOut, balance>>

\* The parts of the wrappers a run exercises: a wrapper file, each of which
\* keeps its state in static variables no other file can reach, with
\* model-wrapper.c taken as its model table and its animation system.
Units == {"texture-wrapper.c", "render-texture-wrapper.c", "font-wrapper.c",
          "shader-wrapper.c", "model-wrapper.c models", "model-wrapper.c animations",
          "ray-collision-wrapper.c"}

Kinds == {"texture", "renderTexture", "font", "shader", "model", "animation"}

\* The identity the library gives the next object it creates: an id no live
\* object has, none when MaxLive objects are alive.  Ids are interchangeable
\* names that the wrappers only store and pass back, so of the unused ids the
\* model takes the lowest.
FreshIds == IF NativeIds \ live = {} THEN {} ELSE {Min(NativeIds \ live)}

\* The exported functions of each wrapper file.
TextureOps ==
  {"LoadTextureToSlot", "GetTextureWidthBySlot", "GetTextureHeightBySlot",
   "GetTextureMipmapsBySlot", "GetTextureFormatBySlot", "GetTextureIdBySlot",
   "UnloadTextureBySlot", "DrawTextureBySlot", "DrawTextureProBySlot",
   "GetLoadedTextureCount", "UnloadAllTextures"}

RenderTextureOps ==
  {"LoadRenderTextureToSlot", "GetRenderTextureIdBySlot",
   "GetRenderTextureColorIdBySlot", "GetRenderTextureColorWidthBySlot",
   "GetRenderTextureColorHeightBySlot", "GetRenderTextureColorMipmapsBySlot",
   "GetRenderTextureColorFormatBySlot", "GetRenderTextureDepthIdBySlot",
   "GetRenderTextureDepthWidthBySlot", "GetRenderTextureDepthHeightBySlot",
   "GetRenderTextureDepthMipmapsBySlot", "GetRenderTextureDepthFormatBySlot",
   "UnloadRenderTextureBySlot", "GetLoadedRenderTextureCount",
   "UnloadAllRenderTextures"}

FontOps ==
  {"LoadFontToSlot", "UnloadFontBySlot", "IsFontSlotValid", "GetLoadedFontCount",
   "UnloadAllFonts", "GetFontDataBySlot", "GetFontBaseSize", "GetFontGlyphCount",
   "MeasureTextBySlot", "DrawTextBySlot", "WrapTextBySlot"}

ShaderOps ==
  {"LoadShaderToSlot", "LoadShaderFromMemoryToSlot", "UnloadShaderBySlot",
   "UnloadAllShaders", "IsShaderSlotValid", "GetLoadedShaderCount",
   "BeginShaderModeBySlot", "GetShaderLocationBySlot", "SetShaderValueFloatBySlot",
   "SetShaderValueIntBySlot", "SetShaderValueVec2BySlot",
   "SetShaderValueVec3BySlot", "SetShaderValueVec4BySlot",
   "SetShaderValueTextureBySlot"}

ModelOps ==
  {"LoadModelToSlot", "GetModelMeshCountBySlot", "GetModelMaterialCountBySlot",
   "GetModelBoundingBoxMinXBySlot", "GetModelBoundingBoxMinYBySlot",
   "GetModelBoundingBoxMinZBySlot", "GetModelBoundingBoxMaxXBySlot",
   "GetModelBoundingBoxMaxYBySlot", "GetModelBoundingBoxMaxZBySlot",
   "UnloadModelBySlot", "DrawModelBySlot", "DrawModelExBySlot",
   "DrawModelWiresBySlot", "GetLoadedModelCount", "UnloadAllModels",
   "IsModelSlotValid", "GetModelPointerFromSlot", "GetModelDataBySlot",
   "GetModelBoundingBoxBySlot", "GetRayCollisionModelMesh"}

AnimationOps ==
  {"LoadModelAnimationsToSlot", "UpdateModelAnimationBySlot",
   "UpdateModelAnimationBonesBySlot", "IsModelAnimationValidBySlot",
   "UnloadModelAnimationBySlot", "UnloadAllAnimations", "GetAnimationDataBySlot",
   "GetLoadedAnimationCount", "IsAnimationSlotValid"}

RayCollisionOps ==
  {"GetRayCollisionSphereWrapper", "GetRayCollisionBoxWrapper",
   "GetRayCollisionTriangleWrapper", "GetLastCollisionHit",
   "GetLastCollisionDistance", "GetLastCollisionPointX", "GetLastCollisionPointY",
   "GetLastCollisionPointZ", "GetLastCollisionNormalX", "GetLastCollisionNormalY",
   "GetLastCollisionNormalZ", "GetLastCollisionData"}

UnitOps(u) ==
  CASE u = "texture-wrapper.c" -> TextureOps
    [] u = "render-texture-wrapper.c" -> RenderTextureOps
    [] u = "font-wrapper.c" -> FontOps
    [] u = "shader-wrapper.c" -> ShaderOps
    [] u = "model-wrapper.c models" -> ModelOps
    [] u = "model-wrapper.c animations" -> AnimationOps
    [] u = "model-wrapper.c" -> ModelOps \cup AnimationOps
    [] u = "slot tables" ->
         TextureOps \cup RenderTextureOps \cup FontOps \cup ShaderOps \cup ModelOps
           \cup AnimationOps
    [] u = "colours" -> FontOps \cup {"ClearBackgroundWrapper", "IntToColor"}
    [] u = "ray-collision-wrapper.c" -> RayCollisionOps
    [] u = "ray collisions" -> RayCollisionOps \cup ModelOps

\* The library call fn(res) as it appears in nativeCalls.
NativeCall(fn, res) == [fn |-> fn, res |-> res]

\* What a call leaves for the caller to see.  args holds the arguments other
\* than the handle for the calls whose arguments decide the outcome.  A run
\* makes the calls of its unit.
Result(op, slot, args, value, out, calls) ==
  /\ op \in UnitOps(unit)
  /\ call' = [op |-> op, slot |-> slot, args |-> args]
  /\ ret' = value
  /\ outBuffer' = out
  /\ nativeCalls' = calls
  /\ unit' = unit
  /\ input' = input
  /\ threads' = threads

\* The result of a function of one of the table files, none of which can
\* reach lastCollision of ray-collision-wrapper.c.
ReturnsWith(op, slot, args, value, out, calls) ==
  /\ Result(op, slot, args, value, out, calls)
  /\ lastCollision' = lastCollision

Returns(op, slot, value, out, calls) == ReturnsWith(op, slot, <<>>, value, out, calls)

\* History bookkeeping of a load that returned handle h / a release of handles H.
Allocated(kind, h) ==
  /\ handedOut' = [handedOut EXCEPT ![kind] = @ \cup {h}]
  /\ balance' = [balance EXCEPT ![kind] = @ + 1]

Released(kind, n, H) ==
  /\ handedOut' = [handedOut EXCEPT ![kind] = @ \ H]
  /\ balance' = [balance EXCEPT ![kind] = @ - n]

(* ======================================================================= *)
(* texture-wrapper.c                                                       *)
(* ======================================================================= *)
TextureFiles == {"a.png"}

ZeroTexture == [id |-> 0, width |-> 0, height |-> 0, mipmaps |-> 0, format |-> 0]

EmptyTextureSlot == [texture |-> ZeroTexture, isLoaded |-> FALSE, fileName |-> ""]

\* What the image file holds; the library copies it into the Texture2D.
TextureOfFile(fileName, id) ==
  IF fileName = "a.png"
  THEN [id |-> id, width |-> 8, height |-> 4, mipmaps |-> 1, format |-> 7]
  ELSE [id |-> id, width |-> 16, height |-> 16, mipmaps |-> 2, format |-> 4]

\* LoadTexture(fileName): a zero texture on failure, else a new GPU texture.
LoadTexture(fileName) ==
  {ZeroTexture} \cup {TextureOfFile(fileName, id) : id \in FreshIds}

TextureHandles == -1..MAX_TEXTURES

TextureSlotBad(slotIndex) ==
  slotIndex < 0 \/ slotIndex >= MAX_TEXTURES \/ ~textureSlots[slotIndex].isLoaded

\* A scan that falls back to slot 0 when no slot is free.
FindFreeTextureSlotReuses ==
  IF \E i \in 0..(MAX_TEXTURES - 1) : ~textureSlots[i].isLoaded
  THEN Min({i \in 0..(MAX_TEXTURES - 1) : ~textureSlots[i].isLoaded})
  ELSE 0

FindFreeTextureSlot ==
  IF \E i \in 0..(MAX_TEXTURES - 1) : ~textureSlots[i].isLoaded
  THEN Min({i \in 0..(MAX_TEXTURES - 1) : ~textureSlots[i].isLoaded})
  ELSE -1

LoadTextureToSlot(fileName) ==
  LET slotIndex == FindFreeTextureSlot IN
  IF slotIndex = -1
  THEN /\ Returns("LoadTextureToSlot", -1, -1, <<>>, <<>>)
       /\ UNCHANGED <<tables, live, history>>
  ELSE \E texture \in LoadTexture(fileName) :
         LET calls == <<NativeCall("LoadTexture", texture.id)>> IN
         IF texture.id = 0
         THEN /\ Returns("LoadTextureToSlot", -1, -1, <<>>, calls)
              /\ UNCHANGED <<tables, live, history>>
         ELSE /\ textureSlots' = [textureSlots EXCEPT ![slotIndex] =
                    [texture |-> texture, isLoaded |-> TRUE, fileName |-> fileName]]
              /\ live' = live \cup {texture.id}
              /\ Allocated("texture", slotIndex)
              /\ Returns("LoadTextureToSlot", slotIndex, slotIndex, <<>>, calls)
              /\ UNCHANGED <<renderTextureSlots, fontSlots, shaderSlots, modelSlots,
                             animationSlots>>

GetTextureWidthValue(slotIndex) ==
  IF TextureSlotBad(slotIndex) THEN 0 ELSE textureSlots[slotIndex].texture.width

GetTextureHeightValue(slotIndex) ==
  IF TextureSlotBad(slotIndex) THEN 0 ELSE textureSlots[slotIndex].texture.height

GetTextureMipmapsValue(slotIndex) ==
  IF TextureSlotBad(slotIndex) THEN 0 ELSE textureSlots[slotIndex].texture.mipmaps

GetTextureFormatValue(slotIndex) ==
  IF TextureSlotBad(slotIndex) THEN 0 ELSE textureSlots[slotIndex].texture.format

GetTextureIdValue(slotIndex) ==
  IF TextureSlotBad(slotIndex) THEN 0 ELSE textureSlots[slotIndex].texture.id

GetTextureWidthBySlot(slotIndex) ==
  /\ Returns("GetTextureWidthBySlot", slotIndex, GetTextureWidthValue(slotIndex), <<>>, <<>>)
  /\ UNCHANGED <<tables, live, history>>

GetTextureHeightBySlot(slotIndex) ==
  /\ Returns("GetTextureHeightBySlot", slotIndex, GetTextureHeightValue(slotIndex), <<>>, <<>>)
  /\ UNCHANGED <<tables, live, history>>

GetTextureMipmapsBySlot(slotIndex) ==
  /\ Returns("GetTextureMipmapsBySlot", slotIndex, GetTextureMipmapsValue(slotIndex), <<>>, <<>>)
  /\ UNCHANGED <<tables, live, history>>

GetTextureFormatBySlot(slotIndex) ==
  /\ Returns("GetTextureFormatBySlot", slotIndex, GetTextureFormatValue(slotIndex), <<>>, <<>>)
  /\ UNCHANGED <<tables, live, history>>

GetTextureIdBySlot(slotIndex) ==
  /\ Returns("GetTextureIdBySlot", slotIndex, GetTextureIdValue(slotIndex), <<>>, <<>>)
  /\ UNCHANGED <<tables, live, history>>

\* The table after the body of UnloadTextureBySlot ran on an occupied slot.
\* An unload that leaves the file name in the slot.
ClearTextureSlotKeepsName(slots, slotIndex) ==
  [slots EXCEPT ![slotIndex].isLoaded = FALSE, ![slotIndex].texture = ZeroTexture]

ClearTextureSlot(slots, slotIndex) == [slots EXCEPT ![slotIndex] = EmptyTextureSlot]

UnloadTextureBySlot(slotIndex) ==
  IF TextureSlotBad(slotIndex)
  THEN /\ Returns("UnloadTextureBySlot", slotIndex, 0, <<>>, <<>>)
       /\ UNCHANGED <<tables, live, history>>
  ELSE /\ textureSlots' = ClearTextureSlot(textureSlots, slotIndex)
       /\ live' = live \ {textureSlots[slotIndex].texture.id}
       /\ Released("texture", 1, {slotIndex})
       /\ Returns("UnloadTextureBySlot", slotIndex, 0, <<>>,
                  <<NativeCall("UnloadTexture", textureSlots[slotIndex].texture.id)>>)
       /\ UNCHANGED <<renderTextureSlots, fontSlots, shaderSlots, modelSlots,
                      animationSlots>>

DrawTextureBySlot(slotIndex) ==
  /\ Returns("DrawTextureBySlot", slotIndex, 0, <<>>,
             IF TextureSlotBad(slotIndex) THEN <<>>
             ELSE <<NativeCall("DrawTexture", textureSlots[slotIndex].texture.id)>>)
  /\ UNCHANGED <<tables, live, history>>

DrawTextureProBySlot(slotIndex) ==
  /\ Returns("DrawTextureProBySlot", slotIndex, 0, <<>>,
             IF TextureSlotBad(slotIndex) THEN <<>>
             ELSE <<NativeCall("DrawTexturePro", textureSlots[slotIndex].texture.id)>>)
  /\ UNCHANGED <<tables, live, history>>

GetLoadedTextureCountValue ==
  Cardinality({i \in 0..(MAX_TEXTURES - 1) : textureSlots[i].isLoaded})

GetLoadedTextureCount ==
  /\ Returns("GetLoadedTextureCount", 0, GetLoadedTextureCountValue, <<>>, <<>>)
  /\ UNCHANGED <<tables, live, history>>

\* A loop that stops after the first index.
FirstOnly(S) == IF S = {} THEN <<>> ELSE <<Min(S)>>

\* Indices of a set in increasing order, as the for loops visit them.
RECURSIVE Ascending(_)
Ascending(S) == IF S = {} THEN <<>> ELSE <<Min(S)>> \o Ascending(S \ {Min(S)})

UnloadAllTextures ==
  LET loaded == {i \in 0..(MAX_TEXTURES - 1) : textureSlots[i].isLoaded}
      order == Ascending(loaded) IN
  /\ textureSlots' = [i \in 0..(MAX_TEXTURES - 1) |->
                        IF i \in loaded THEN EmptyTextureSlot ELSE textureSlots[i]]
  /\ live' = live \ {textureSlots[i].texture.id : i \in loaded}
  /\ Released("texture", Cardinality(loaded), loaded)
  /\ Returns("UnloadAllTextures", 0, 0, <<>>,
             [k \in 1..Len(order) |->
                NativeCall("UnloadTexture", textureSlots[order[k]].texture.id)])
  /\ UNCHANGED <<renderTextureSlots, fontSlots, shaderSlots, modelSlots, animationSlots>>

(* ======================================================================= *)
(* texture-wrapper.c called from two threads                               *)
(* ======================================================================= *)
\* The wrappers take no lock.  A call made by a thread is a sequence of steps,
\* one per read or write of textureSlots and per library call, and the steps
\* of the other thread may come between them.  threads[t].pc is the step that
\* thread t makes next.  The history counts a load when it stores and a
\* release when a slot that was occupied is cleared.
Threads == {"A", "B"}

IdleThread ==
  [pc |-> "idle", op |-> "none", fileName |-> NULL, slotIndex |-> -1,
   texture |-> ZeroTexture, ret |-> 0, calls |-> <<>>]

\* A step of thread t: the other thread, and what the last whole call left,
\* stay as they are.
ThreadStep(t, next) ==
  /\ threads' = [threads EXCEPT ![t] = next]
  /\ UNCHANGED <<renderTextureSlots, fontSlots, shaderSlots, modelSlots, animationSlots,
                 lastCollision, call, ret, outBuffer, nativeCalls, unit, input>>

\* int slotIndex = FindFreeTextureSlot(); if (slotIndex == -1) return -1;
LoadTextureToSlotScan(t, fileName) ==
  /\ threads[t].pc = "idle"
  /\ LET slotIndex == FindFreeTextureSlot IN
     ThreadStep(t, IF slotIndex = -1
                   THEN [IdleThread EXCEPT !.pc = "returned", !.op = "LoadTextureToSlot",
                                           !.ret = -1]
                   ELSE [IdleThread EXCEPT !.pc = "LoadTexture",
                                           !.op = "LoadTextureToSlot",
                                           !.fileName = fileName,
                                           !.slotIndex = slotIndex])
  /\ UNCHANGED <<textureSlots, live, history>>

\* Texture2D texture = LoadTexture(fileName); if (texture.id == 0) return -1;
LoadTextureToSlotLoad(t) ==
  /\ threads[t].pc = "LoadTexture"
  /\ \E texture \in LoadTexture(threads[t].fileName) :
       LET calls == <<NativeCall("LoadTexture", texture.id)>> IN
       IF texture.id = 0
       THEN /\ ThreadStep(t, [threads[t] EXCEPT !.pc = "returned", !.ret = -1,
                                                !.calls = calls])
            /\ live' = live
       ELSE /\ ThreadStep(t, [threads[t] EXCEPT !.pc = "store", !.texture = texture,
                                                !.calls = calls])
            /\ live' = live \cup {texture.id}
  /\ UNCHANGED <<textureSlots, history>>

\* A store that looks at the slot again and gives up when it was taken.
LoadTextureToSlotStoreChecked(t) ==
  /\ threads[t].pc = "store"
  /\ LET slotIndex == threads[t].slotIndex IN
     IF textureSlots[slotIndex].isLoaded
     THEN /\ ThreadStep(t, [threads[t] EXCEPT !.pc = "returned", !.ret = -1])
          /\ live' = live \ {threads[t].texture.id}
          /\ UNCHANGED <<textureSlots, history>>
     ELSE /\ textureSlots' = [textureSlots EXCEPT ![slotIndex] =
                [texture |-> threads[t].texture, isLoaded |-> TRUE,
                 fileName |-> threads[t].fileName]]
          /\ Allocated("texture", slotIndex)
          /\ ThreadStep(t, [threads[t] EXCEPT !.pc = "returned", !.ret = slotIndex])
          /\ live' = live

\* The stores into textureSlots[slotIndex], and return slotIndex.
LoadTextureToSlotStore(t) ==
  /\ threads[t].pc = "store"
  /\ LET slotIndex == threads[t].slotIndex IN
     /\ textureSlots' = [textureSlots EXCEPT ![slotIndex] =
           [texture |-> threads[t].texture, isLoaded |-> TRUE,
            fileName |-> threads[t].fileName]]
     /\ Allocated("texture", slotIndex)
     /\ ThreadStep(t, [threads[t] EXCEPT !.pc = "returned", !.ret = slotIndex])
  /\ live' = live

\* The handle check of UnloadTextureBySlot.
UnloadTextureBySlotCheck(t, slotIndex) ==
  /\ threads[t].pc = "idle"
  /\ ThreadStep(t, [IdleThread EXCEPT !.op = "UnloadTextureBySlot",
                                      !.slotIndex = slotIndex,
                                      !.pc = IF TextureSlotBad(slotIndex) THEN "returned"
                                             ELSE "UnloadTexture"])
  /\ UNCHANGED <<textureSlots, live, history>>

\* A library call that is left out when the texture is no longer alive.
UnloadTextureBySlotUnloadOnce(t) ==
  /\ threads[t].pc = "UnloadTexture"
  /\ LET id == textureSlots[threads[t].slotIndex].texture.id IN
     /\ ThreadStep(t, [threads[t] EXCEPT !.pc = "clear",
                          !.calls = IF id \in live THEN <<NativeCall("UnloadTexture", id)>>
                                    ELSE <<>>])
     /\ live' = live \ {id}
  /\ UNCHANGED <<textureSlots, history>>

\* UnloadTexture(textureSlots[slotIndex].texture), with the texture the slot
\* holds when the call is made.
UnloadTextureBySlotUnload(t) ==
  /\ threads[t].pc = "UnloadTexture"
  /\ LET id == textureSlots[threads[t].slotIndex].texture.id IN
     /\ ThreadStep(t, [threads[t] EXCEPT !.pc = "clear",
                                         !.calls = <<NativeCall("UnloadTexture", id)>>])
     /\ live' = live \ {id}
  /\ UNCHANGED <<textureSlots, history>>

\* isLoaded = false, texture = {0}, and the memset of fileName.
UnloadTextureBySlotClear(t) ==
  /\ threads[t].pc = "clear"
  /\ textureSlots' = ClearTextureSlot(textureSlots, threads[t].slotIndex)
  /\ Released("texture", IF textureSlots[threads[t].slotIndex].isLoaded THEN 1 ELSE 0,
              {threads[t].slotIndex})
  /\ ThreadStep(t, [threads[t] EXCEPT !.pc = "returned"])
  /\ live' = live

\* The call of thread t is over, and the thread is free to make another.
ThreadReturns(t) ==
  /\ threads[t].pc = "returned"
  /\ ThreadStep(t, IdleThread)
  /\ UNCHANGED <<textureSlots, live, history>>

(* ======================================================================= *)
(* render-texture-wrapper.c                                                *)
(* ======================================================================= *)
RenderSizes == {<<8, 4>>}

ZeroRenderTexture == [id |-> 0, texture |-> ZeroTexture, depth |-> ZeroTexture]

EmptyRenderTextureSlot == [renderTexture |-> ZeroRenderTexture, isLoaded |-> FALSE]

\* LoadRenderTexture(width, height): a zero object on failure, else a new
\* framebuffer with a colour and a depth attachment of the requested size.
LoadRenderTexture(width, height) ==
  {ZeroRenderTexture} \cup
  {[id |-> id,
    texture |-> [id |-> id, width |-> width, height |-> height, mipmaps |-> 1, format |-> 7],
    depth |-> [id |-> id, width |-> width, height |-> height, mipmaps |-> 1, format |-> 19]]
     : id \in FreshIds}

RenderTextureHandles == -1..MAX_RENDER_TEXTURES

RenderTextureSlotBad(slotIndex) ==
  \/ slotIndex < 0
  \/ slotIndex >= MAX_RENDER_TEXTURES
  \/ ~renderTextureSlots[slotIndex].isLoaded

FindFreeRenderTextureSlot ==
  IF \E i \in 0..(MAX_RENDER_TEXTURES - 1) : ~renderTextureSlots[i].isLoaded
  THEN Min({i \in 0..(MAX_RENDER_TEXTURES - 1) : ~renderTextureSlots[i].isLoaded})
  ELSE -1

\* A load that never takes the failure branch.
RenderTextureLoadNeverFails(renderTexture) == FALSE

\* if (renderTexture.id == 0): the library reported failure.
RenderTextureLoadFailed(renderTexture) == renderTexture.id = 0

LoadRenderTextureToSlot(width, height) ==
  LET slotIndex == FindFreeRenderTextureSlot IN
  IF slotIndex = -1
  THEN /\ Returns("LoadRenderTextureToSlot", -1, -1, <<>>, <<>>)
       /\ UNCHANGED <<tables, live, history>>
  ELSE \E renderTexture \in LoadRenderTexture(width, height) :
         LET calls == <<NativeCall("LoadRenderTexture", renderTexture.id)>> IN
         IF RenderTextureLoadFailed(renderTexture)
         THEN /\ Returns("LoadRenderTextureToSlot", -1, -1, <<>>, calls)
              /\ UNCHANGED <<tables, live, history>>
         ELSE /\ renderTextureSlots' = [renderTextureSlots EXCEPT ![slotIndex] =
                    [renderTexture |-> renderTexture, isLoaded |-> TRUE]]
              /\ live' = live \cup {renderTexture.id}
              /\ Allocated("renderTexture", slotIndex)
              /\ Returns("LoadRenderTextureToSlot", slotIndex, slotIndex, <<>>, calls)
              /\ UNCHANGED <<textureSlots, fontSlots, shaderSlots, modelSlots,
                             animationSlots>>

\* A getter: no table changes, nothing is asked of the library.
Accessor(op, slotIndex, value) ==
  /\ Returns(op, slotIndex, value, <<>>, <<>>)
  /\ UNCHANGED <<tables, live, history>>

\* The RenderTexture2D a getter reads: the stored one, or nothing for a bad handle.
RenderTextureField(slotIndex, part, field) ==
  IF RenderTextureSlotBad(slotIndex) THEN 0
  ELSE renderTextureSlots[slotIndex].renderTexture[part][field]

GetRenderTextureIdValue(slotIndex) ==
  IF RenderTextureSlotBad(slotIndex) THEN 0
  ELSE renderTextureSlots[slotIndex].renderTexture.id

GetRenderTextureIdBySlot(slotIndex) ==
  Accessor("GetRenderTextureIdBySlot", slotIndex, GetRenderTextureIdValue(slotIndex))

GetRenderTextureColorIdBySlot(slotIndex) ==
  Accessor("GetRenderTextureColorIdBySlot", slotIndex,
           RenderTextureField(slotIndex, "texture", "id"))

GetRenderTextureColorWidthBySlot(slotIndex) ==
  Accessor("GetRenderTextureColorWidthBySlot", slotIndex,
           RenderTextureField(slotIndex, "texture", "width"))

GetRenderTextureColorHeightBySlot(slotIndex) ==
  Accessor("GetRenderTextureColorHeightBySlot", slotIndex,
           RenderTextureField(slotIndex, "texture", "height"))

GetRenderTextureColorMipmapsBySlot(slotIndex) ==
  Accessor("GetRenderTextureColorMipmapsBySlot", slotIndex,
           RenderTextureField(slotIndex, "texture", "mipmaps"))

GetRenderTextureColorFormatBySlot(slotIndex) ==
  Accessor("GetRenderTextureColorFormatBySlot", slotIndex,
           RenderTextureField(slotIndex, "texture", "format"))

GetRenderTextureDepthIdBySlot(slotIndex) ==
  Accessor("GetRenderTextureDepthIdBySlot", slotIndex,
           RenderTextureField(slotIndex, "depth", "id"))

GetRenderTextureDepthWidthBySlot(slotIndex) ==
  Accessor("GetRenderTextureDepthWidthBySlot", slotIndex,
           RenderTextureField(slotIndex, "depth", "width"))

GetRenderTextureDepthHeightBySlot(slotIndex) ==
  Accessor("GetRenderTextureDepthHeightBySlot", slotIndex,
           RenderTextureField(slotIndex, "depth", "height"))

GetRenderTextureDepthMipmapsBySlot(slotIndex) ==
  Accessor("GetRenderTextureDepthMipmapsBySlot", slotIndex,
           RenderTextureField(slotIndex, "depth", "mipmaps"))

GetRenderTextureDepthFormatBySlot(slotIndex) ==
  Accessor("GetRenderTextureDepthFormatBySlot", slotIndex,
           RenderTextureField(slotIndex, "depth", "format"))

ClearRenderTextureSlot(slots, slotIndex) ==
  [slots EXCEPT ![slotIndex] = EmptyRenderTextureSlot]

UnloadRenderTextureBySlot(slotIndex) ==
  IF RenderTextureSlotBad(slotIndex)
  THEN /\ Returns("UnloadRenderTextureBySlot", slotIndex, 0, <<>>, <<>>)
       /\ UNCHANGED <<tables, live, history>>
  ELSE /\ renderTextureSlots' = ClearRenderTextureSlot(renderTextureSlots, slotIndex)
       /\ live' = live \ {renderTextureSlots[slotIndex].renderTexture.id}
       /\ Released("renderTexture", 1, {slotIndex})
       /\ Returns("UnloadRenderTextureBySlot", slotIndex, 0, <<>>,
                  <<NativeCall("UnloadRenderTexture",
                               renderTextureSlots[slotIndex].renderTexture.id)>>)
       /\ UNCHANGED <<textureSlots, fontSlots, shaderSlots, modelSlots, animationSlots>>

GetLoadedRenderTextureCountValue ==
  Cardinality({i \in 0..(MAX_RENDER_TEXTURES - 1) : renderTextureSlots[i].isLoaded})

GetLoadedRenderTextureCount ==
  Accessor("GetLoadedRenderTextureCount", 0, GetLoadedRenderTextureCountValue)

UnloadAllRenderTextures ==
  LET loaded == {i \in 0..(MAX_RENDER_TEXTURES - 1) : renderTextureSlots[i].isLoaded}
      order == Ascending(loaded) IN
  /\ renderTextureSlots' = [i \in 0..(MAX_RENDER_TEXTURES - 1) |->
        IF i \in loaded THEN EmptyRenderTextureSlot ELSE renderTextureSlots[i]]
  /\ live' = live \ {renderTextureSlots[i].renderTexture.id : i \in loaded}
  /\ Released("renderTexture", Cardinality(loaded), loaded)
  /\ Returns("UnloadAllRenderTextures", 0, 0, <<>>,
             [k \in 1..Len(order) |->
                NativeCall("UnloadRenderTexture",
                           renderTextureSlots[order[k]].renderTexture.id)])
  /\ UNCHANGED <<textureSlots, fontSlots, shaderSlots, modelSlots, animationSlots>>

(* ======================================================================= *)
(* raylib-wrapper.c and triangle-wrapper.c: colours                        *)
(* ======================================================================= *)
\* An unsigned int of 32 bits is kept as its two halves of 16 bits, hi and lo,
\* each within the integers of the model checker; its value is
\* hi * 65536 + lo.  PackU32 is the one whose bytes are bytes[1] (the lowest)
\* to bytes[4].
PackU32(bytes) == [hi |-> bytes[3] + bytes[4] * 256, lo |-> bytes[1] + bytes[2] * 256]

\* (x >> n) & 0xFF for n = 0, 8, 16, 24.
ShiftMask(x, n) ==
  CASE n = 0 -> x.lo % 256
    [] n = 8 -> (x.lo \div 256) % 256
    [] n = 16 -> x.hi % 256
    [] n = 24 -> (x.hi \div 256) % 256

White == PackU32(<<255, 255, 255, 255>>)

\* raylib-wrapper.c: static Color ColorFromU32(unsigned int hexValue).
ColorFromU32(hexValue) ==
  [r |-> ShiftMask(hexValue, 0),
   g |-> ShiftMask(hexValue, 8),
   b |-> ShiftMask(hexValue, 16),
   a |-> ShiftMask(hexValue, 24)]

ClearBackgroundWrapper(color) ==
  /\ ReturnsWith("ClearBackgroundWrapper", 0, <<color>>, 0, <<>>,
                 <<NativeCall("ClearBackground", ColorFromU32(color))>>)
  /\ UNCHANGED <<tables, live, history>>

\* triangle-wrapper.c: the Color is the return value.
IntToColor(colorInt) ==
  /\ ReturnsWith("IntToColor", 0, <<colorInt>>,
                 [r |-> ShiftMask(colorInt, 0),
                  g |-> ShiftMask(colorInt, 8),
                  b |-> ShiftMask(colorInt, 16),
                  a |-> ShiftMask(colorInt, 24)],
                 <<>>, <<>>)
  /\ UNCHANGED <<tables, live, history>>

(* ======================================================================= *)
(* font-wrapper.c                                                          *)
(* ======================================================================= *)
\* A C string is the sequence of its character codes (32 space, 10 newline,
\* 97 'a', 98 'b'); NullText stands for the NULL pointer.
NullText == <<-1>>

ZeroFont == [baseSize |-> 0, glyphCount |-> 0, texture |-> ZeroTexture]

EmptyFontSlot == [font |-> ZeroFont, isLoaded |-> FALSE, baseSize |-> 0, glyphCount |-> 0]

\* LoadFontEx(fileName, fontSize, NULL, 0): a zero font on failure, else a font
\* of the default 95 glyphs with its atlas in a new GPU texture.
LoadFontEx(fileName, fontSize) ==
  {ZeroFont} \cup
  {[baseSize |-> fontSize, glyphCount |-> 95,
    texture |-> [id |-> id, width |-> 64, height |-> 64, mipmaps |-> 1, format |-> 2]]
     : id \in FreshIds}

FontHandles == -1..MAX_FONTS

\* A handle check that leaves out the isLoaded flag.
FontSlotBadRangeOnly(slotIndex) == slotIndex < 0 \/ slotIndex >= MAX_FONTS

FontSlotBad(slotIndex) ==
  slotIndex < 0 \/ slotIndex >= MAX_FONTS \/ ~fontSlots[slotIndex].isLoaded

FindFreeFontSlot ==
  IF \E i \in 0..(MAX_FONTS - 1) : ~fontSlots[i].isLoaded
  THEN Min({i \in 0..(MAX_FONTS - 1) : ~fontSlots[i].isLoaded})
  ELSE -1

LoadFontToSlot(fileName, fontSize) ==
  IF fileName = NULL \/ fontSize <= 0
  THEN /\ ReturnsWith("LoadFontToSlot", -1, <<fileName, fontSize>>, -1, <<>>, <<>>)
       /\ UNCHANGED <<tables, live, history>>
  ELSE
  LET slotIndex == FindFreeFontSlot IN
  IF slotIndex = -1
  THEN /\ ReturnsWith("LoadFontToSlot", -1, <<fileName, fontSize>>, -1, <<>>, <<>>)
       /\ UNCHANGED <<tables, live, history>>
  ELSE \E font \in LoadFontEx(fileName, fontSize) :
         LET calls == <<NativeCall("LoadFontEx", font.texture.id)>> IN
         IF font.texture.id = 0
         THEN /\ ReturnsWith("LoadFontToSlot", -1, <<fileName, fontSize>>, -1, <<>>, calls)
              /\ UNCHANGED <<tables, live, history>>
         ELSE /\ fontSlots' = [fontSlots EXCEPT ![slotIndex] =
                    [font |-> font, isLoaded |-> TRUE, baseSize |-> font.baseSize,
                     glyphCount |-> font.glyphCount]]
              /\ live' = live \cup {font.texture.id}
              /\ Allocated("font", slotIndex)
              /\ ReturnsWith("LoadFontToSlot", slotIndex, <<fileName, fontSize>>,
                             slotIndex, <<>>, calls)
              /\ UNCHANGED <<textureSlots, renderTextureSlots, shaderSlots, modelSlots,
                             animationSlots>>

ClearFontSlot(slots, slotIndex) == [slots EXCEPT ![slotIndex] = EmptyFontSlot]

UnloadFontBySlot(slotIndex) ==
  IF FontSlotBad(slotIndex)
  THEN /\ Returns("UnloadFontBySlot", slotIndex, 0, <<>>, <<>>)
       /\ UNCHANGED <<tables, live, history>>
  ELSE /\ fontSlots' = ClearFontSlot(fontSlots, slotIndex)
       /\ live' = live \ {fontSlots[slotIndex].font.texture.id}
       /\ Released("font", 1, {slotIndex})
       /\ Returns("UnloadFontBySlot", slotIndex, 0, <<>>,
                  <<NativeCall("UnloadFont", fontSlots[slotIndex].font.texture.id)>>)
       /\ UNCHANGED <<textureSlots, renderTextureSlots, shaderSlots, modelSlots,
                      animationSlots>>

IsFontSlotValidValue(slotIndex) ==
  IF slotIndex < 0 \/ slotIndex >= MAX_FONTS THEN 0
  ELSE IF fontSlots[slotIndex].isLoaded THEN 1 ELSE 0

IsFontSlotValid(slotIndex) ==
  Accessor("IsFontSlotValid", slotIndex, IsFontSlotValidValue(slotIndex))

GetLoadedFontCountValue ==
  Cardinality({i \in 0..(MAX_FONTS - 1) : fontSlots[i].isLoaded})

GetLoadedFontCount == Accessor("GetLoadedFontCount", 0, GetLoadedFontCountValue)

UnloadAllFonts ==
  LET loaded == {i \in 0..(MAX_FONTS - 1) : fontSlots[i].isLoaded}
      order == Ascending(loaded) IN
  /\ fontSlots' = [i \in 0..(MAX_FONTS - 1) |->
                     IF i \in loaded THEN EmptyFontSlot ELSE fontSlots[i]]
  /\ live' = live \ {fontSlots[i].font.texture.id : i \in loaded}
  /\ Released("font", Cardinality(loaded), loaded)
  /\ Returns("UnloadAllFonts", 0, 0, <<>>,
             [k \in 1..Len(order) |->
                NativeCall("UnloadFont", fontSlots[order[k]].font.texture.id)])
  /\ UNCHANGED <<textureSlots, renderTextureSlots, shaderSlots, modelSlots,
                 animationSlots>>

\* out is the outBuffer argument: NULL or a buffer of the caller.
GetFontDataBySlot(slotIndex, out) ==
  /\ ReturnsWith("GetFontDataBySlot", slotIndex, <<out>>, 0,
        IF FontSlotBad(slotIndex) \/ out = NULL
        THEN (IF out # NULL THEN <<0, 0>> ELSE <<>>)
        ELSE <<fontSlots[slotIndex].baseSize, fontSlots[slotIndex].glyphCount>>,
        <<>>)
  /\ UNCHANGED <<tables, live, history>>

GetFontBaseSizeValue(slotIndex) ==
  IF FontSlotBad(slotIndex) THEN 0 ELSE fontSlots[slotIndex].baseSize

GetFontBaseSize(slotIndex) ==
  Accessor("GetFontBaseSize", slotIndex, GetFontBaseSizeValue(slotIndex))

GetFontGlyphCountValue(slotIndex) ==
  IF FontSlotBad(slotIndex) THEN 0 ELSE fontSlots[slotIndex].glyphCount

GetFontGlyphCount(slotIndex) ==
  Accessor("GetFontGlyphCount", slotIndex, GetFontGlyphCountValue(slotIndex))

\* Advance of one glyph at font size 1.
GlyphAdvance(c) == IF c = 32 THEN 1 ELSE IF c = 98 THEN 3 ELSE 2

RECURSIVE SumAdvance(_)
SumAdvance(text) ==
  IF text = <<>> THEN 0 ELSE GlyphAdvance(Head(text)) + SumAdvance(Tail(text))

\* MeasureTextEx(font, text, fontSize, spacing) for a text of one line: <<x, y>>,
\* the glyph advances scaled to the size plus the spacing between the glyphs.
MeasureTextEx(font, text, fontSize, spacing) ==
  IF font.texture.id = 0 \/ text = <<>> THEN <<0, 0>>
  ELSE <<SumAdvance(text) * fontSize + (Len(text) - 1) * spacing, fontSize>>

MeasureTextBySlot(slotIndex, text, fontSize, spacing, out) ==
  LET args == <<text, fontSize, spacing, out>> IN
  /\ IF FontSlotBad(slotIndex) \/ text = NullText \/ out = NULL \/ fontSize <= 0
     THEN ReturnsWith("MeasureTextBySlot", slotIndex, args, 0,
                      IF out # NULL THEN <<0, 0>> ELSE <<>>, <<>>)
     ELSE IF text = <<>>
     THEN ReturnsWith("MeasureTextBySlot", slotIndex, args, 0, <<0, 0>>, <<>>)
     ELSE ReturnsWith("MeasureTextBySlot", slotIndex, args, 0,
                      MeasureTextEx(fontSlots[slotIndex].font, text, fontSize, spacing),
                      <<NativeCall("MeasureTextEx", fontSlots[slotIndex].font.texture.id)>>)
  /\ UNCHANGED <<tables, live, history>>

\* An unpacking that takes r from the lowest byte, as the other files do.
FontColorLowByteFirst(color) ==
  [r |-> ShiftMask(color, 0),
   g |-> ShiftMask(color, 8),
   b |-> ShiftMask(color, 16),
   a |-> ShiftMask(color, 24)]

\* font-wrapper.c: static Color ColorFromU32(unsigned int color), the helper
\* of this file.
FontColorFromU32(color) ==
  [r |-> ShiftMask(color, 24),
   g |-> ShiftMask(color, 16),
   b |-> ShiftMask(color, 8),
   a |-> ShiftMask(color, 0)]

\* The library call is recorded with the font and the tint it is given.
DrawTextBySlot(slotIndex, text, fontSize, color) ==
  /\ ReturnsWith("DrawTextBySlot", slotIndex, <<text, fontSize, color>>, 0, <<>>,
        IF FontSlotBad(slotIndex) \/ text = NullText \/ fontSize <= 0 THEN <<>>
        ELSE IF text = <<>> THEN <<>>
        ELSE <<[fn |-> "DrawTextEx", res |-> fontSlots[slotIndex].font.texture.id,
                tint |-> FontColorFromU32(color)]>>)
  /\ UNCHANGED <<tables, live, history>>

\* char wordBuffer[256], scaled down so that a word that does not fit in it
\* is within reach.
WORD_BUFFER_SIZE == 4

\* A scan for the end of a word that runs over newlines.
RECURSIVE WordEndAtSpace(_, _)
WordEndAtSpace(text, i) ==
  IF i < Len(text) /\ text[i + 1] # 32
  THEN WordEndAtSpace(text, i + 1)
  ELSE i

\* The inner scan: the first index at or after i holding a space, a newline
\* or the end of the text (indices are the C ones, text[i] is text[i + 1] here).
RECURSIVE WordEnd(_, _)
WordEnd(text, i) ==
  IF i < Len(text) /\ text[i + 1] # 32 /\ text[i + 1] # 10
  THEN WordEnd(text, i + 1)
  ELSE i

\* The character-by-character loop over text[j .. wordEnd - 1];
\* s = [out, lineCount, width], the output cursor outIndex is Len(s.out).
RECURSIVE WrapChars(_, _, _, _, _, _, _, _, _)
WrapChars(font, text, fontSize, spacing, maxWidth, bufferSize, j, wordEnd, s) ==
  IF j < wordEnd /\ Len(s.out) < bufferSize - 1
  THEN LET charSize == MeasureTextEx(font, <<text[j + 1]>>, fontSize, spacing)[1]
           break == s.width + charSize > maxWidth /\ s.width > 0
           out1 == IF break THEN Append(s.out, 10) ELSE s.out
       IN WrapChars(font, text, fontSize, spacing, maxWidth, bufferSize, j + 1, wordEnd,
                    [out |-> Append(out1, text[j + 1]),
                     lineCount |-> IF break THEN s.lineCount + 1 ELSE s.lineCount,
                     width |-> (IF break THEN 0 ELSE s.width) + charSize])
  ELSE s

\* Passes of the main loop that differ from the code in one place: the width
\* test breaks at the budget, or on a line of width 0, the cursor stays on the
\* space after a word, or the space is not added to the width of the line.
WrapStepVariant(variant, font, text, fontSize, spacing, maxWidth, bufferSize, s) ==
  IF text[s.i + 1] = 10
  THEN LET lineLen == s.i - s.lineStartIndex
           fits == Len(s.out) + lineLen + 1 < bufferSize
       IN [i |-> s.i + 1,
           out |-> IF fits
                   THEN Append(s.out \o SubSeq(text, s.lineStartIndex + 1, s.i), 10)
                   ELSE s.out,
           lineCount |-> IF fits THEN s.lineCount + 1 ELSE s.lineCount,
           width |-> 0,
           lineStartIndex |-> s.i + 1]
  ELSE LET wordStart == s.i
           wordEnd == WordEnd(text, s.i)
           wordLen == IF wordEnd - wordStart >= WORD_BUFFER_SIZE
                      THEN WORD_BUFFER_SIZE - 1 ELSE wordEnd - wordStart
           wordBuffer == SubSeq(text, wordStart + 1, wordStart + wordLen)
           wordSize == MeasureTextEx(font, wordBuffer, fontSize, spacing)[1]
           \* start a new line before the word
           newLine == /\ s.width > 0 \/ variant = "break on an empty line"
                      /\ IF variant = "break at the budget"
                         THEN s.width + wordSize >= maxWidth
                         ELSE s.width + wordSize > maxWidth
           trimmed == IF Len(s.out) > 0 /\ s.out[Len(s.out)] = 32
                      THEN SubSeq(s.out, 1, Len(s.out) - 1) ELSE s.out
           broke == newLine /\ Len(trimmed) < bufferSize - 1
           a == [out |-> IF newLine
                         THEN (IF broke THEN Append(trimmed, 10) ELSE trimmed)
                         ELSE s.out,
                 lineCount |-> IF broke THEN s.lineCount + 1 ELSE s.lineCount,
                 width |-> IF newLine THEN 0 ELSE s.width]
           lineStartIndex == IF newLine THEN wordStart ELSE s.lineStartIndex
           \* the word itself
           b == IF wordSize > maxWidth
                THEN WrapChars(font, text, fontSize, spacing, maxWidth, bufferSize,
                               wordStart, wordEnd, a)
                ELSE IF Len(a.out) + wordLen < bufferSize
                THEN [a EXCEPT !.out = a.out \o wordBuffer, !.width = a.width + wordSize]
                ELSE a
           \* the space after it
           space == wordEnd < Len(text) /\ text[wordEnd + 1] = 32
           spaceSize == MeasureTextEx(font, <<32>>, fontSize, spacing)[1]
           placed == space /\ Len(b.out) < bufferSize - 1
       IN [i |-> IF space /\ variant # "space not passed" THEN wordEnd + 1 ELSE wordEnd,
           out |-> IF placed THEN Append(b.out, 32) ELSE b.out,
           lineCount |-> b.lineCount,
           width |-> IF placed /\ variant # "space not measured"
                     THEN b.width + spaceSize ELSE b.width,
           lineStartIndex |-> lineStartIndex]

WrapStepBreaksAtBudget(font, text, fontSize, spacing, maxWidth, bufferSize, s) ==
  WrapStepVariant("break at the budget", font, text, fontSize, spacing, maxWidth,
                  bufferSize, s)

WrapStepBreaksOnEmptyLine(font, text, fontSize, spacing, maxWidth, bufferSize, s) ==
  WrapStepVariant("break on an empty line", font, text, fontSize, spacing, maxWidth,
                  bufferSize, s)

WrapStepSpaceNotPassed(font, text, fontSize, spacing, maxWidth, bufferSize, s) ==
  WrapStepVariant("space not passed", font, text, fontSize, spacing, maxWidth,
                  bufferSize, s)

WrapStepSpaceNotMeasured(font, text, fontSize, spacing, maxWidth, bufferSize, s) ==
  WrapStepVariant("space not measured", font, text, fontSize, spacing, maxWidth,
                  bufferSize, s)

\* One pass of the body of the main loop;
\* s = [i, out, lineCount, width, lineStartIndex].
WrapStep(font, text, fontSize, spacing, maxWidth, bufferSize, s) ==
  IF text[s.i + 1] = 10
  THEN LET lineLen == s.i - s.lineStartIndex
           fits == Len(s.out) + lineLen + 1 < bufferSize
       IN [i |-> s.i + 1,
           out |-> IF fits
                   THEN Append(s.out \o SubSeq(text, s.lineStartIndex + 1, s.i), 10)
                   ELSE s.out,
           lineCount |-> IF fits THEN s.lineCount + 1 ELSE s.lineCount,
           width |-> 0,
           lineStartIndex |-> s.i + 1]
  ELSE LET wordStart == s.i
           wordEnd == WordEnd(text, s.i)
           wordLen == IF wordEnd - wordStart >= WORD_BUFFER_SIZE
                      THEN WORD_BUFFER_SIZE - 1 ELSE wordEnd - wordStart
           wordBuffer == SubSeq(text, wordStart + 1, wordStart + wordLen)
           wordSize == MeasureTextEx(font, wordBuffer, fontSize, spacing)[1]
           \* start a new line before the word
           newLine == s.width > 0 /\ s.width + wordSize > maxWidth
           trimmed == IF Len(s.out) > 0 /\ s.out[Len(s.out)] = 32
                      THEN SubSeq(s.out, 1, Len(s.out) - 1) ELSE s.out
           broke == newLine /\ Len(trimmed) < bufferSize - 1
           a == [out |-> IF newLine
                         THEN (IF broke THEN Append(trimmed, 10) ELSE trimmed)
                         ELSE s.out,
                 lineCount |-> IF broke THEN s.lineCount + 1 ELSE s.lineCount,
                 width |-> IF newLine THEN 0 ELSE s.width]
           lineStartIndex == IF newLine THEN wordStart ELSE s.lineStartIndex
           \* the word itself
           b == IF wordSize > maxWidth
                THEN WrapChars(font, text, fontSize, spacing, maxWidth, bufferSize,
                               wordStart, wordEnd, a)
                ELSE IF Len(a.out) + wordLen < bufferSize
                THEN [a EXCEPT !.out = a.out \o wordBuffer, !.width = a.width + wordSize]
                ELSE a
           \* the space after it
           space == wordEnd < Len(text) /\ text[wordEnd + 1] = 32
           spaceSize == MeasureTextEx(font, <<32>>, fontSize, spacing)[1]
           placed == space /\ Len(b.out) < bufferSize - 1
       IN [i |-> IF space THEN wordEnd + 1 ELSE wordEnd,
           out |-> IF placed THEN Append(b.out, 32) ELSE b.out,
           lineCount |-> b.lineCount,
           width |-> IF placed THEN b.width + spaceSize ELSE b.width,
           lineStartIndex |-> lineStartIndex]

RECURSIVE WrapLoop(_, _, _, _, _, _, _)
WrapLoop(font, text, fontSize, spacing, maxWidth, bufferSize, s) ==
  IF s.i < Len(text) /\ Len(s.out) < bufferSize - 1
  THEN WrapLoop(font, text, fontSize, spacing, maxWidth, bufferSize,
                WrapStep(font, text, fontSize, spacing, maxWidth, bufferSize, s))
  ELSE s

\* A wrap that does not count a last line without a break.
WrapTextBreaksOnly(font, text, fontSize, spacing, maxWidth, bufferSize) ==
  LET s == WrapLoop(font, text, fontSize, spacing, maxWidth, bufferSize,
                    [i |-> 0, out |-> <<>>, lineCount |-> 0, width |-> 0,
                     lineStartIndex |-> 0])
  IN [out |-> s.out, lineCount |-> s.lineCount]

\* The valid, non-empty case of WrapTextBySlot: [out, lineCount], where out is
\* outBuffer[0 .. outIndex - 1] and the terminator goes to outBuffer[outIndex].
WrapText(font, text, fontSize, spacing, maxWidth, bufferSize) ==
  LET s == WrapLoop(font, text, fontSize, spacing, maxWidth, bufferSize,
                    [i |-> 0, out |-> <<>>, lineCount |-> 0, width |-> 0,
                     lineStartIndex |-> 0])
  IN [out |-> s.out,
      lineCount |-> IF Len(s.out) > 0 /\ s.out[Len(s.out)] # 10
                    THEN s.lineCount + 1 ELSE s.lineCount]

\* WrapTextBySlot with the empty-text case taken before the argument checks.
WrapTextBySlotEmptyFirst(slotIndex, text, fontSize, spacing, maxWidth, out, bufferSize) ==
  LET args == <<text, fontSize, spacing, maxWidth, out, bufferSize>> IN
  /\ IF text = <<>>
     THEN ReturnsWith("WrapTextBySlot", slotIndex, args, 0,
                      IF out # NULL THEN <<0>> ELSE <<>>, <<>>)
     ELSE IF \/ FontSlotBad(slotIndex) \/ text = NullText \/ out = NULL
             \/ fontSize <= 0 \/ maxWidth <= 0 \/ bufferSize <= 0
     THEN ReturnsWith("WrapTextBySlot", slotIndex, args, -1, <<>>, <<>>)
     ELSE LET r == WrapText(fontSlots[slotIndex].font, text, fontSize, spacing,
                            maxWidth, bufferSize)
          IN ReturnsWith("WrapTextBySlot", slotIndex, args, r.lineCount,
                         Append(r.out, 0),
                         <<NativeCall("MeasureTextEx",
                                      fontSlots[slotIndex].font.texture.id)>>)
  /\ UNCHANGED <<tables, live, history>>

\* WrapTextBySlot with an empty text counted as one line.
WrapTextBySlotEmptyAsLine(slotIndex, text, fontSize, spacing, maxWidth, out, bufferSize) ==
  LET args == <<text, fontSize, spacing, maxWidth, out, bufferSize>> IN
  /\ IF \/ FontSlotBad(slotIndex) \/ text = NullText \/ out = NULL
        \/ fontSize <= 0 \/ maxWidth <= 0 \/ bufferSize <= 0
     THEN ReturnsWith("WrapTextBySlot", slotIndex, args, -1, <<>>, <<>>)
     ELSE IF text = <<>>
     THEN ReturnsWith("WrapTextBySlot", slotIndex, args, 1, <<0>>, <<>>)
     ELSE LET r == WrapText(fontSlots[slotIndex].font, text, fontSize, spacing,
                            maxWidth, bufferSize)
          IN ReturnsWith("WrapTextBySlot", slotIndex, args, r.lineCount,
                         Append(r.out, 0),
                         <<NativeCall("MeasureTextEx",
                                      fontSlots[slotIndex].font.texture.id)>>)
  /\ UNCHANGED <<tables, live, history>>

\* nativeCalls lists the repeated MeasureTextEx calls of one wrap once.
WrapTextBySlot(slotIndex, text, fontSize, spacing, maxWidth, out, bufferSize) ==
  LET args == <<text, fontSize, spacing, maxWidth, out, bufferSize>> IN
  /\ IF \/ FontSlotBad(slotIndex) \/ text = NullText \/ out = NULL
        \/ fontSize <= 0 \/ maxWidth <= 0 \/ bufferSize <= 0
     THEN ReturnsWith("WrapTextBySlot", slotIndex, args, -1, <<>>, <<>>)
     ELSE IF text = <<>>
     THEN ReturnsWith("WrapTextBySlot", slotIndex, args, 0, <<0>>, <<>>)
     ELSE LET r == WrapText(fontSlots[slotIndex].font, text, fontSize, spacing,
                            maxWidth, bufferSize)
          IN ReturnsWith("WrapTextBySlot", slotIndex, args, r.lineCount,
                         Append(r.out, 0),
                         <<NativeCall("MeasureTextEx",
                                      fontSlots[slotIndex].font.texture.id)>>)
  /\ UNCHANGED <<tables, live, history>>

\* Arguments the host passes to the text functions.
Texts == {NullText, <<>>, <<97, 32, 98>>}
FontFiles == {NULL, "font.ttf"}
FontSizes == {0, 1}
Widths == {0, 4}
BufferSizes == {0, 16}
Buffers == {NULL, "buffer"}

\* Calls of MeasureTextBySlot and DrawTextBySlot: a text at size 1, and the
\* calls that differ from that of "a b" in one argument.
TextCalls ==
  {[text |-> text, fontSize |-> 1, out |-> "buffer"] : text \in Texts} \cup
  {[text |-> <<97, 32, 98>>, fontSize |-> fontSize, out |-> out] :
     fontSize \in FontSizes, out \in Buffers}

\* Calls of WrapTextBySlot: the text "a b" wrapped at width 4 into a buffer of
\* 16 bytes, and the calls that differ from it in one argument.
WrapCalls ==
  {[text |-> text, fontSize |-> 1, maxWidth |-> 4, out |-> "buffer", bufferSize |-> 16] :
     text \in Texts} \cup
  {[text |-> <<97, 32, 98>>, fontSize |-> 1, maxWidth |-> maxWidth, out |-> out,
    bufferSize |-> 16] : maxWidth \in Widths, out \in Buffers} \cup
  {[text |-> <<97, 32, 98>>, fontSize |-> fontSize, maxWidth |-> 4, out |-> "buffer",
    bufferSize |-> bufferSize] : fontSize \in FontSizes, bufferSize \in BufferSizes}

\* Arguments of the runs of SpecWrap.  Texts are the strings of at most
\* MaxTextLen characters over 'a', 'b', space and newline, of advances 2, 3, 1
\* (a newline is never measured).
MaxTextLen == 3
MaxWidth == 5
MaxBufferSize == 5
\* A buffer no wrapped text of MaxTextLen characters fills.
LargeBufferSize == 4 * (MaxTextLen + 1)

WrapChars4 == {97, 98, 32, 10}

RECURSIVE TextsOfLen(_)
TextsOfLen(n) ==
  IF n = 0 THEN {<<>>}
  ELSE {Append(t, c) : t \in TextsOfLen(n - 1), c \in WrapChars4}

WrapTexts == UNION {TextsOfLen(n) : n \in 0..MaxTextLen}

\* A word of one character more than wordBuffer holds with its terminator.
LongWord == [k \in 1..WORD_BUFFER_SIZE |-> 97]

WrapInputs ==
  \* valid calls of every text, width and buffer size
  {[text |-> text, fontSize |-> 1, maxWidth |-> maxWidth, out |-> "buffer",
    bufferSize |-> bufferSize] :
     text \in WrapTexts, maxWidth \in 1..MaxWidth,
     bufferSize \in (1..MaxBufferSize) \cup {LargeBufferSize}} \cup
  \* the long word, at the narrow widths and at one that its first
  \* WORD_BUFFER_SIZE - 1 characters fit in
  {[text |-> LongWord, fontSize |-> 1, maxWidth |-> maxWidth, out |-> "buffer",
    bufferSize |-> 4 * (WORD_BUFFER_SIZE + 1)] :
     maxWidth \in (1..MaxWidth) \cup {2 * WORD_BUFFER_SIZE - 1}} \cup
  \* "aaa b" at the width of its first word, at every buffer size
  {[text |-> <<97, 97, 97, 32, 98>>, fontSize |-> 1, maxWidth |-> 3 * GlyphAdvance(97),
    out |-> "buffer", bufferSize |-> bufferSize] : bufferSize \in 1..MaxBufferSize} \cup
  \* "a  b", two spaces between the words, at the width of its first word
  {[text |-> <<97, 32, 32, 98>>, fontSize |-> 1, maxWidth |-> GlyphAdvance(97),
    out |-> "buffer", bufferSize |-> LargeBufferSize]} \cup
  \* calls with any of the arguments out of its domain
  {[text |-> text, fontSize |-> fontSize, maxWidth |-> maxWidth, out |-> out,
    bufferSize |-> bufferSize] :
     text \in {NullText, <<>>, <<97, 32, 98>>}, fontSize \in {0, 1},
     maxWidth \in {0 - 1, 0, MaxWidth}, out \in Buffers,
     bufferSize \in {0 - 1, 0, LargeBufferSize}}

(* ======================================================================= *)
(* shader-wrapper.c                                                        *)
(* ======================================================================= *)
\* char locationNames[MAX_LOCATION_CACHE][64]
LOCATION_NAME_SIZE == 64

ZeroShader == [id |-> 0]

\* A slot of the zero-initialised static array.
EmptyShaderSlot ==
  [shader |-> ZeroShader, isValid |-> FALSE,
   locationCache |-> [k \in 1..MAX_LOCATION_CACHE |-> 0],
   locationNames |-> [k \in 1..MAX_LOCATION_CACHE |-> <<>>],
   cacheCount |-> 0]

\* The cache after memset(locationCache, -1, ...) and memset(locationNames, 0, ...).
ClearedLocationCache == [k \in 1..MAX_LOCATION_CACHE |-> -1]
ClearedLocationNames == [k \in 1..MAX_LOCATION_CACHE |-> <<>>]

\* LoadShader / LoadShaderFromMemory: id 0 on failure, else a new program.
LoadShader(vs, fs) == {ZeroShader} \cup {[id |-> id] : id \in FreshIds}

\* GetShaderLocation(shader, uniformName): the uniform named "x" (120) is not
\* in the program; the others sit at the location their last letter gives
\* ("u" at 0, "v" at 1, ...).
GetShaderLocation(shader, uniformName) ==
  IF uniformName = <<>> \/ uniformName = <<120>> THEN -1
  ELSE uniformName[Len(uniformName)] - 117

ShaderHandles == -1..MAX_SHADER_SLOTS

\* A handle check that leaves out the isValid flag.
ShaderSlotBadRangeOnly(slotIndex) == slotIndex < 0 \/ slotIndex >= MAX_SHADER_SLOTS

ShaderSlotBad(slotIndex) ==
  slotIndex < 0 \/ slotIndex >= MAX_SHADER_SLOTS \/ ~shaderSlots[slotIndex].isValid

FindFreeShaderSlot ==
  IF \E i \in 0..(MAX_SHADER_SLOTS - 1) : ~shaderSlots[i].isValid
  THEN Min({i \in 0..(MAX_SHADER_SLOTS - 1) : ~shaderSlots[i].isValid})
  ELSE -1

\* The common body of LoadShaderToSlot and LoadShaderFromMemoryToSlot.
LoadShaderInto(op, fn, vs, fs) ==
  LET slotIndex == FindFreeShaderSlot IN
  IF slotIndex = -1
  THEN /\ Returns(op, -1, -1, <<>>, <<>>)
       /\ UNCHANGED <<tables, live, history>>
  ELSE \E shader \in LoadShader(vs, fs) :
         LET calls == <<NativeCall(fn, shader.id)>> IN
         IF shader.id = 0
         THEN /\ Returns(op, -1, -1, <<>>, calls)
              /\ UNCHANGED <<tables, live, history>>
         ELSE /\ shaderSlots' = [shaderSlots EXCEPT ![slotIndex] =
                    [shader |-> shader, isValid |-> TRUE,
                     locationCache |-> ClearedLocationCache,
                     locationNames |-> ClearedLocationNames,
                     cacheCount |-> 0]]
              /\ live' = live \cup {shader.id}
              /\ Allocated("shader", slotIndex)
              /\ Returns(op, slotIndex, slotIndex, <<>>, calls)
              /\ UNCHANGED <<textureSlots, renderTextureSlots, fontSlots, modelSlots,
                             animationSlots>>

LoadShaderToSlot(vsFileName, fsFileName) ==
  LoadShaderInto("LoadShaderToSlot", "LoadShader", vsFileName, fsFileName)

LoadShaderFromMemoryToSlot(vsCode, fsCode) ==
  LoadShaderInto("LoadShaderFromMemoryToSlot", "LoadShaderFromMemory", vsCode, fsCode)

\* An unload that only drops the isValid flag.
ClearShaderSlotFlagOnly(slots, slotIndex) == [slots EXCEPT ![slotIndex].isValid = FALSE]

ClearShaderSlot(slots, slotIndex) ==
  [slots EXCEPT ![slotIndex] =
     [shader |-> ZeroShader, isValid |-> FALSE,
      locationCache |-> ClearedLocationCache,
      locationNames |-> ClearedLocationNames,
      cacheCount |-> 0]]

UnloadShaderBySlot(slotIndex) ==
  IF ShaderSlotBad(slotIndex)
  THEN /\ Returns("UnloadShaderBySlot", slotIndex, 0, <<>>, <<>>)
       /\ UNCHANGED <<tables, live, history>>
  ELSE /\ shaderSlots' = ClearShaderSlot(shaderSlots, slotIndex)
       /\ live' = live \ {shaderSlots[slotIndex].shader.id}
       /\ Released("shader", 1, {slotIndex})
       /\ Returns("UnloadShaderBySlot", slotIndex, 0, <<>>,
                  <<NativeCall("UnloadShader", shaderSlots[slotIndex].shader.id)>>)
       /\ UNCHANGED <<textureSlots, renderTextureSlots, fontSlots, modelSlots,
                      animationSlots>>

UnloadAllShaders ==
  LET loaded == {i \in 0..(MAX_SHADER_SLOTS - 1) : shaderSlots[i].isValid}
      order == Ascending(loaded) IN
  /\ shaderSlots' = [i \in 0..(MAX_SHADER_SLOTS - 1) |->
        IF i \in loaded THEN ClearShaderSlot(shaderSlots, i)[i] ELSE shaderSlots[i]]
  /\ live' = live \ {shaderSlots[i].shader.id : i \in loaded}
  /\ Released("shader", Cardinality(loaded), loaded)
  /\ Returns("UnloadAllShaders", 0, 0, <<>>,
             [k \in 1..Len(order) |->
                NativeCall("UnloadShader", shaderSlots[order[k]].shader.id)])
  /\ UNCHANGED <<textureSlots, renderTextureSlots, fontSlots, modelSlots, animationSlots>>

\* A validity check that looks at the range of the handle only.
IsShaderSlotValidRangeOnly(slotIndex) ==
  IF slotIndex >= 0 /\ slotIndex < MAX_SHADER_SLOTS THEN 1 ELSE 0

IsShaderSlotValidValue(slotIndex) ==
  IF slotIndex >= 0 /\ slotIndex < MAX_SHADER_SLOTS /\ shaderSlots[slotIndex].isValid
  THEN 1 ELSE 0

IsShaderSlotValid(slotIndex) ==
  Accessor("IsShaderSlotValid", slotIndex, IsShaderSlotValidValue(slotIndex))

GetLoadedShaderCountValue ==
  Cardinality({i \in 0..(MAX_SHADER_SLOTS - 1) : shaderSlots[i].isValid})

GetLoadedShaderCount == Accessor("GetLoadedShaderCount", 0, GetLoadedShaderCountValue)

BeginShaderModeBySlot(slotIndex) ==
  /\ Returns("BeginShaderModeBySlot", slotIndex, 0, <<>>,
             IF ShaderSlotBad(slotIndex) THEN <<>>
             ELSE <<NativeCall("BeginShaderMode", shaderSlots[slotIndex].shader.id)>>)
  /\ UNCHANGED <<tables, live, history>>

\* strncpy(dst, uniformName, 63); dst[63] = '\0'
StoredName(uniformName) ==
  IF Len(uniformName) > LOCATION_NAME_SIZE - 1
  THEN SubSeq(uniformName, 1, LOCATION_NAME_SIZE - 1)
  ELSE uniformName

\* Index of the first cache entry whose name equals uniformName (strcmp), 0 if none.
CachedAt(slot, uniformName) ==
  IF \E k \in 1..slot.cacheCount : slot.locationNames[k] = uniformName
  THEN Min({k \in 1..slot.cacheCount : slot.locationNames[k] = uniformName})
  ELSE 0

\* A lookup that, when the cache is full, writes over its last entry.
GetShaderLocationBySlotOverwrites(slotIndex, uniformName) ==
  IF ShaderSlotBad(slotIndex) \/ uniformName = NullText
  THEN /\ ReturnsWith("GetShaderLocationBySlot", slotIndex, <<uniformName>>, -1, <<>>, <<>>)
       /\ UNCHANGED <<tables, live, history>>
  ELSE
  LET slot == shaderSlots[slotIndex]
      hit == CachedAt(slot, uniformName)
      location == GetShaderLocation(slot.shader, uniformName)
      at == IF slot.cacheCount < MAX_LOCATION_CACHE THEN slot.cacheCount + 1
            ELSE MAX_LOCATION_CACHE
  IN
  IF hit # 0
  THEN /\ ReturnsWith("GetShaderLocationBySlot", slotIndex, <<uniformName>>,
                      slot.locationCache[hit], <<>>, <<>>)
       /\ UNCHANGED <<tables, live, history>>
  ELSE /\ ReturnsWith("GetShaderLocationBySlot", slotIndex, <<uniformName>>, location,
                      <<>>, <<NativeCall("GetShaderLocation", slot.shader.id)>>)
       /\ IF location # -1
          THEN shaderSlots' = [shaderSlots EXCEPT ![slotIndex] =
                 [slot EXCEPT !.locationCache[at] = location,
                              !.locationNames[at] = StoredName(uniformName),
                              !.cacheCount = at]]
          ELSE shaderSlots' = shaderSlots
       /\ UNCHANGED <<textureSlots, renderTextureSlots, fontSlots, modelSlots,
                      animationSlots, live, history>>

GetShaderLocationBySlot(slotIndex, uniformName) ==
  IF ShaderSlotBad(slotIndex) \/ uniformName = NullText
  THEN /\ ReturnsWith("GetShaderLocationBySlot", slotIndex, <<uniformName>>, -1, <<>>, <<>>)
       /\ UNCHANGED <<tables, live, history>>
  ELSE
  LET slot == shaderSlots[slotIndex]
      hit == CachedAt(slot, uniformName)
      location == GetShaderLocation(slot.shader, uniformName)
  IN
  IF hit # 0
  THEN /\ ReturnsWith("GetShaderLocationBySlot", slotIndex, <<uniformName>>,
                      slot.locationCache[hit], <<>>, <<>>)
       /\ UNCHANGED <<tables, live, history>>
  ELSE /\ ReturnsWith("GetShaderLocationBySlot", slotIndex, <<uniformName>>, location,
                      <<>>, <<NativeCall("GetShaderLocation", slot.shader.id)>>)
       /\ IF location # -1 /\ slot.cacheCount < MAX_LOCATION_CACHE
          THEN shaderSlots' = [shaderSlots EXCEPT ![slotIndex] =
                 [slot EXCEPT !.locationCache[slot.cacheCount + 1] = location,
                              !.locationNames[slot.cacheCount + 1] = StoredName(uniformName),
                              !.cacheCount = slot.cacheCount + 1]]
          ELSE shaderSlots' = shaderSlots
       /\ UNCHANGED <<textureSlots, renderTextureSlots, fontSlots, modelSlots,
                      animationSlots, live, history>>

\* The common body of the SetShaderValue*BySlot functions; extraBad is the
\* additional argument check of the texture variant.
SetShaderValueInto(op, slotIndex, locIndex, extraBad) ==
  /\ ReturnsWith(op, slotIndex, <<locIndex>>, 0, <<>>,
        IF ShaderSlotBad(slotIndex) \/ locIndex < 0 \/ extraBad THEN <<>>
        ELSE <<NativeCall("SetShaderValue", shaderSlots[slotIndex].shader.id)>>)
  /\ UNCHANGED <<tables, live, history>>

SetShaderValueFloatBySlot(slotIndex, locIndex) ==
  SetShaderValueInto("SetShaderValueFloatBySlot", slotIndex, locIndex, FALSE)

SetShaderValueIntBySlot(slotIndex, locIndex) ==
  SetShaderValueInto("SetShaderValueIntBySlot", slotIndex, locIndex, FALSE)

SetShaderValueVec2BySlot(slotIndex, locIndex) ==
  SetShaderValueInto("SetShaderValueVec2BySlot", slotIndex, locIndex, FALSE)

SetShaderValueVec3BySlot(slotIndex, locIndex) ==
  SetShaderValueInto("SetShaderValueVec3BySlot", slotIndex, locIndex, FALSE)

SetShaderValueVec4BySlot(slotIndex, locIndex) ==
  SetShaderValueInto("SetShaderValueVec4BySlot", slotIndex, locIndex, FALSE)

SetShaderValueTextureBySlot(slotIndex, locIndex, textureSlotIndex) ==
  SetShaderValueInto("SetShaderValueTextureBySlot", slotIndex, locIndex,
                     textureSlotIndex < 0)

ShaderSources == {NULL, "shader.glsl"}
UniformNames == {NullText, <<117>>}
LocIndexes == {-1, 0}

(* ======================================================================= *)
(* model-wrapper.c: models                                                 *)
(* ======================================================================= *)
ModelFiles == {"model.glb"}

\* Model: id stands for the mesh, material and bone arrays the library allocated.
ZeroModel == [id |-> 0, meshCount |-> 0, materialCount |-> 0, boneCount |-> 0]

ZeroVector3 == <<0, 0, 0>>
ZeroBoundingBox == [min |-> ZeroVector3, max |-> ZeroVector3]

EmptyModelSlot ==
  [model |-> ZeroModel, isLoaded |-> FALSE, fileName |-> "",
   boundingBox |-> ZeroBoundingBox]

\* LoadModel(fileName): a model without meshes on failure.
LoadModel(fileName) ==
  {ZeroModel} \cup
  {[id |-> id, meshCount |-> 2, materialCount |-> 1, boneCount |-> 2]
     : id \in FreshIds}

GetModelBoundingBox(model) ==
  [min |-> <<-1, -2, -3>>, max |-> <<model.meshCount, 2, 3>>]

ModelHandles == -1..MAX_MODELS

ModelSlotBad(slotIndex) ==
  slotIndex < 0 \/ slotIndex >= MAX_MODELS \/ ~modelSlots[slotIndex].isLoaded

\* A scan from the highest index down.
FindFreeModelSlotHighest ==
  IF \E i \in 0..(MAX_MODELS - 1) : ~modelSlots[i].isLoaded
  THEN CHOOSE i \in 0..(MAX_MODELS - 1) :
         /\ ~modelSlots[i].isLoaded
         /\ \A j \in 0..(MAX_MODELS - 1) : ~modelSlots[j].isLoaded => j <= i
  ELSE -1

FindFreeModelSlot ==
  IF \E i \in 0..(MAX_MODELS - 1) : ~modelSlots[i].isLoaded
  THEN Min({i \in 0..(MAX_MODELS - 1) : ~modelSlots[i].isLoaded})
  ELSE -1

LoadModelToSlot(fileName) ==
  LET slotIndex == FindFreeModelSlot IN
  IF slotIndex = -1
  THEN /\ Returns("LoadModelToSlot", -1, -1, <<>>, <<>>)
       /\ UNCHANGED <<tables, live, history>>
  ELSE \E model \in LoadModel(fileName) :
         LET calls == <<NativeCall("LoadModel", model.id)>> IN
         IF model.meshCount = 0
         THEN /\ Returns("LoadModelToSlot", -1, -1, <<>>, calls)
              /\ UNCHANGED <<tables, live, history>>
         ELSE /\ modelSlots' = [modelSlots EXCEPT ![slotIndex] =
                    [model |-> model, isLoaded |-> TRUE, fileName |-> fileName,
                     boundingBox |-> GetModelBoundingBox(model)]]
              /\ live' = live \cup {model.id}
              /\ Allocated("model", slotIndex)
              /\ Returns("LoadModelToSlot", slotIndex, slotIndex,
                         <<slotIndex, model.meshCount, model.materialCount>>,
                         calls \o <<NativeCall("GetModelBoundingBox", model.id)>>)
              /\ UNCHANGED <<textureSlots, renderTextureSlots, fontSlots, shaderSlots,
                             animationSlots>>

GetModelMeshCountValue(slotIndex) ==
  IF ModelSlotBad(slotIndex) THEN 0 ELSE modelSlots[slotIndex].model.meshCount

GetModelMeshCountBySlot(slotIndex) ==
  Accessor("GetModelMeshCountBySlot", slotIndex, GetModelMeshCountValue(slotIndex))

GetModelMaterialCountValue(slotIndex) ==
  IF ModelSlotBad(slotIndex) THEN 0 ELSE modelSlots[slotIndex].model.materialCount

GetModelMaterialCountBySlot(slotIndex) ==
  Accessor("GetModelMaterialCountBySlot", slotIndex, GetModelMaterialCountValue(slotIndex))

\* corner is "min" or "max", axis is 1 (x), 2 (y) or 3 (z)
ModelBoundingBoxField(slotIndex, corner, axis) ==
  IF ModelSlotBad(slotIndex) THEN 0 ELSE modelSlots[slotIndex].boundingBox[corner][axis]

GetModelBoundingBoxMinXBySlot(slotIndex) ==
  Accessor("GetModelBoundingBoxMinXBySlot", slotIndex,
           ModelBoundingBoxField(slotIndex, "min", 1))

GetModelBoundingBoxMinYBySlot(slotIndex) ==
  Accessor("GetModelBoundingBoxMinYBySlot", slotIndex,
           ModelBoundingBoxField(slotIndex, "min", 2))

GetModelBoundingBoxMinZBySlot(slotIndex) ==
  Accessor("GetModelBoundingBoxMinZBySlot", slotIndex,
           ModelBoundingBoxField(slotIndex, "min", 3))

GetModelBoundingBoxMaxXBySlot(slotIndex) ==
  Accessor("GetModelBoundingBoxMaxXBySlot", slotIndex,
           ModelBoundingBoxField(slotIndex, "max", 1))

GetModelBoundingBoxMaxYBySlot(slotIndex) ==
  Accessor("GetModelBoundingBoxMaxYBySlot", slotIndex,
           ModelBoundingBoxField(slotIndex, "max", 2))

GetModelBoundingBoxMaxZBySlot(slotIndex) ==
  Accessor("GetModelBoundingBoxMaxZBySlot", slotIndex,
           ModelBoundingBoxField(slotIndex, "max", 3))

\* An unload that resets the whole table.
ClearModelSlotAll(slots, slotIndex) == [i \in DOMAIN slots |-> EmptyModelSlot]

ClearModelSlot(slots, slotIndex) == [slots EXCEPT ![slotIndex] = EmptyModelSlot]

\* An unload of a model that drops the animation sets with it.
UnloadModelBySlotDropsAnimations(slotIndex) ==
  IF ModelSlotBad(slotIndex)
  THEN /\ Returns("UnloadModelBySlot", slotIndex, 0, <<>>, <<>>)
       /\ UNCHANGED <<tables, live, history>>
  ELSE /\ modelSlots' = [modelSlots EXCEPT ![slotIndex] = EmptyModelSlot]
       /\ animationSlots' = [i \in DOMAIN animationSlots |->
                               [animationSlots[i] EXCEPT !.isValid = FALSE]]
       /\ live' = live \ {modelSlots[slotIndex].model.id}
       /\ Released("model", 1, {slotIndex})
       /\ Returns("UnloadModelBySlot", slotIndex, 0, <<>>,
                  <<NativeCall("UnloadModel", modelSlots[slotIndex].model.id)>>)
       /\ UNCHANGED <<textureSlots, renderTextureSlots, fontSlots, shaderSlots>>

UnloadModelBySlot(slotIndex) ==
  IF ModelSlotBad(slotIndex)
  THEN /\ Returns("UnloadModelBySlot", slotIndex, 0, <<>>, <<>>)
       /\ UNCHANGED <<tables, live, history>>
  ELSE /\ modelSlots' = ClearModelSlot(modelSlots, slotIndex)
       /\ live' = live \ {modelSlots[slotIndex].model.id}
       /\ Released("model", 1, {slotIndex})
       /\ Returns("UnloadModelBySlot", slotIndex, 0, <<>>,
                  <<NativeCall("UnloadModel", modelSlots[slotIndex].model.id)>>)
       /\ UNCHANGED <<textureSlots, renderTextureSlots, fontSlots, shaderSlots,
                      animationSlots>>

\* The common body of DrawModelBySlot, DrawModelExBySlot and DrawModelWiresBySlot.
DrawModelInto(op, fn, slotIndex) ==
  /\ Returns(op, slotIndex, 0, <<>>,
             IF ModelSlotBad(slotIndex) THEN <<>>
             ELSE <<NativeCall(fn, modelSlots[slotIndex].model.id)>>)
  /\ UNCHANGED <<tables, live, history>>

DrawModelBySlot(slotIndex) == DrawModelInto("DrawModelBySlot", "DrawModel", slotIndex)

DrawModelExBySlot(slotIndex) == DrawModelInto("DrawModelExBySlot", "DrawModelEx", slotIndex)

DrawModelWiresBySlot(slotIndex) ==
  DrawModelInto("DrawModelWiresBySlot", "DrawModelWires", slotIndex)

GetLoadedModelCountValue ==
  Cardinality({i \in 0..(MAX_MODELS - 1) : modelSlots[i].isLoaded})

GetLoadedModelCount == Accessor("GetLoadedModelCount", 0, GetLoadedModelCountValue)

UnloadAllModels ==
  LET loaded == {i \in 0..(MAX_MODELS - 1) : modelSlots[i].isLoaded}
      order == Ascending(loaded) IN
  /\ modelSlots' = [i \in 0..(MAX_MODELS - 1) |->
                      IF i \in loaded THEN EmptyModelSlot ELSE modelSlots[i]]
  /\ live' = live \ {modelSlots[i].model.id : i \in loaded}
  /\ Released("model", Cardinality(loaded), loaded)
  /\ Returns("UnloadAllModels", 0, 0, <<>>,
             [k \in 1..Len(order) |->
                NativeCall("UnloadModel", modelSlots[order[k]].model.id)])
  /\ UNCHANGED <<textureSlots, renderTextureSlots, fontSlots, shaderSlots,
                 animationSlots>>

IsModelSlotValidValue(slotIndex) ==
  IF slotIndex >= 0 /\ slotIndex < MAX_MODELS /\ modelSlots[slotIndex].isLoaded
  THEN 1 ELSE 0

IsModelSlotValid(slotIndex) ==
  Accessor("IsModelSlotValid", slotIndex, IsModelSlotValidValue(slotIndex))

\* An address taken without looking at the slot.
GetModelPointerUnchecked(slotIndex) == slotIndex + 1

\* &modelSlots[slotIndex].model as the address slotIndex + 1; NULL is 0.
GetModelPointerFromSlotValue(slotIndex) ==
  IF ModelSlotBad(slotIndex) THEN 0 ELSE slotIndex + 1

GetModelPointerFromSlot(slotIndex) ==
  Accessor("GetModelPointerFromSlot", slotIndex, GetModelPointerFromSlotValue(slotIndex))

GetModelDataBySlot(slotIndex) ==
  /\ Returns("GetModelDataBySlot", slotIndex, 0,
             IF ModelSlotBad(slotIndex) THEN <<-1, 0, 0>>
             ELSE <<slotIndex, modelSlots[slotIndex].model.meshCount,
                    modelSlots[slotIndex].model.materialCount>>,
             <<>>)
  /\ UNCHANGED <<tables, live, history>>

GetModelBoundingBoxBySlot(slotIndex) ==
  /\ Returns("GetModelBoundingBoxBySlot", slotIndex, 0,
             IF ModelSlotBad(slotIndex) THEN <<0, 0, 0, 0, 0, 0>>
             ELSE modelSlots[slotIndex].boundingBox.min \o
                  modelSlots[slotIndex].boundingBox.max,
             <<>>)
  /\ UNCHANGED <<tables, live, history>>

\* RayCollision results the library may report: a miss and two hits.
ZeroRayCollision ==
  [hit |-> 0, distance |-> 0, point |-> ZeroVector3, normal |-> ZeroVector3]

RayResults ==
  {ZeroRayCollision,
   [hit |-> 1, distance |-> 5, point |-> <<1, 2, 3>>, normal |-> <<0, 1, 0>>],
   [hit |-> 1, distance |-> 9, point |-> <<4, 5, 6>>, normal |-> <<1, 0, 0>>]}

\* [hit, distance, point.x, point.y, point.z, normal.x, normal.y, normal.z]
CollisionFloats(collision) ==
  <<IF collision.hit # 0 THEN 1 ELSE 0, collision.distance>>
    \o collision.point \o collision.normal

\* A mesh query that keeps its result in lastCollision as the queries of
\* ray-collision-wrapper.c do.
GetRayCollisionModelMeshStores(slotIndex, meshIndex) ==
  /\ IF ModelSlotBad(slotIndex)
        \/ meshIndex < 0 \/ meshIndex >= modelSlots[slotIndex].model.meshCount
     THEN ReturnsWith("GetRayCollisionModelMesh", slotIndex, <<meshIndex>>, 0,
                      CollisionFloats(ZeroRayCollision), <<>>)
     ELSE \E collision \in RayResults :
            /\ lastCollision' = collision
            /\ Result("GetRayCollisionModelMesh", slotIndex, <<meshIndex>>, 0,
                      CollisionFloats(collision),
                      <<NativeCall("GetRayCollisionMesh",
                                   modelSlots[slotIndex].model.id)>>)
  /\ UNCHANGED <<tables, live, history>>

\* The ray is a valid pointer: the function dereferences it unchecked.
GetRayCollisionModelMesh(slotIndex, meshIndex) ==
  /\ IF ModelSlotBad(slotIndex)
     THEN ReturnsWith("GetRayCollisionModelMesh", slotIndex, <<meshIndex>>, 0,
                      CollisionFloats(ZeroRayCollision), <<>>)
     ELSE IF meshIndex < 0 \/ meshIndex >= modelSlots[slotIndex].model.meshCount
     THEN ReturnsWith("GetRayCollisionModelMesh", slotIndex, <<meshIndex>>, 0,
                      CollisionFloats(ZeroRayCollision), <<>>)
     ELSE \E collision \in RayResults :
            ReturnsWith("GetRayCollisionModelMesh", slotIndex, <<meshIndex>>, 0,
                        CollisionFloats(collision),
                        <<NativeCall("GetRayCollisionMesh",
                                     modelSlots[slotIndex].model.id)>>)
  /\ UNCHANGED <<tables, live, history>>

(* ======================================================================= *)
(* model-wrapper.c: animations                                             *)
(* ======================================================================= *)
AnimationFiles == {"model.glb"}

\* ModelAnimation *animations: ptr is the address of the array (0 is NULL),
\* data the ModelAnimation values it holds.
NullAnimations == [ptr |-> 0, data |-> <<>>]

EmptyAnimationSlot == [animations |-> NullAnimations, animCount |-> 0, isValid |-> FALSE]

\* The address of an allocated array of zero animations.
EmptyArrayAddress == MaxLive + 1

\* LoadModelAnimations(fileName, &animCount): <<animations, animCount>>.
\* NULL with count 0 on failure; an allocated array of no animation for a file
\* that holds none; else the animations of the file, the second one empty.
LoadModelAnimations(fileName) ==
  {<<NullAnimations, 0>>} \cup
  {<<[ptr |-> EmptyArrayAddress, data |-> <<>>], 0>>} \cup
  {<<[ptr |-> id,
      data |-> <<[frameCount |-> 3, boneCount |-> 2],
                 [frameCount |-> 0, boneCount |-> 2]>>], 2>> : id \in FreshIds}

AnimationHandles == -1..MAX_ANIMATIONS

AnimationSlotBad(animSlot) ==
  animSlot < 0 \/ animSlot >= MAX_ANIMATIONS \/ ~animationSlots[animSlot].isValid

FindFreeAnimationSlot ==
  IF \E i \in 0..(MAX_ANIMATIONS - 1) : ~animationSlots[i].isValid
  THEN Min({i \in 0..(MAX_ANIMATIONS - 1) : ~animationSlots[i].isValid})
  ELSE -1

\* outBuffer is *outAnimCount.
LoadModelAnimationsToSlot(fileName) ==
  LET slotIndex == FindFreeAnimationSlot IN
  IF slotIndex = -1
  THEN /\ Returns("LoadModelAnimationsToSlot", -1, -1, <<0>>, <<>>)
       /\ UNCHANGED <<tables, live, history>>
  ELSE \E loaded \in LoadModelAnimations(fileName) :
         LET animations == loaded[1]
             animCount == loaded[2]
             calls == <<NativeCall("LoadModelAnimations", <<animations.ptr, animCount>>)>>
         IN
         IF animations.ptr = 0 \/ animCount = 0
         THEN /\ Returns("LoadModelAnimationsToSlot", -1, -1, <<0>>, calls)
              /\ live' = (IF animations.ptr = 0 THEN live ELSE live \cup {animations.ptr})
              /\ UNCHANGED <<tables, history>>
         ELSE /\ animationSlots' = [animationSlots EXCEPT ![slotIndex] =
                    [animations |-> animations, animCount |-> animCount,
                     isValid |-> TRUE]]
              /\ live' = live \cup {animations.ptr}
              /\ Allocated("animation", slotIndex)
              /\ Returns("LoadModelAnimationsToSlot", slotIndex, slotIndex,
                         <<animCount>>, calls)
              /\ UNCHANGED <<textureSlots, renderTextureSlots, fontSlots, shaderSlots,
                             modelSlots>>

\* The clamp of UpdateModelAnimationBySlot and UpdateModelAnimationBonesBySlot.
ClampFrame(frame, frameCount) ==
  LET clampedFrame == IF frame < 0 THEN 0 ELSE frame
  IN IF clampedFrame >= frameCount THEN frameCount - 1 ELSE clampedFrame

\* The checks without the model slot's isLoaded test.
AnimationArgsValidStaleModel(modelSlotIndex, animSlot, animIndex) ==
  /\ ~(modelSlotIndex < 0 \/ modelSlotIndex >= MAX_MODELS)
  /\ ~AnimationSlotBad(animSlot)
  /\ ~(animIndex < 0 \/ animIndex >= animationSlots[animSlot].animCount)

\* The checks the three animation functions share: TRUE when the library is reached.
AnimationArgsValid(modelSlotIndex, animSlot, animIndex) ==
  /\ GetModelPointerFromSlotValue(modelSlotIndex) # 0
  /\ ~AnimationSlotBad(animSlot)
  /\ ~(animIndex < 0 \/ animIndex >= animationSlots[animSlot].animCount)

\* The common body of the two update functions.  The library call is recorded
\* with the model, the animation array, the index and the frame it is given.
UpdateAnimationInto(op, fn, modelSlotIndex, animSlot, animIndex, frame) ==
  /\ ReturnsWith(op, modelSlotIndex, <<animSlot, animIndex>>, 0, <<>>,
        IF AnimationArgsValid(modelSlotIndex, animSlot, animIndex)
        THEN LET anim == animationSlots[animSlot].animations.data[animIndex + 1]
             IN <<NativeCall(fn, <<modelSlots[modelSlotIndex].model.id,
                                   animationSlots[animSlot].animations.ptr,
                                   animIndex, ClampFrame(frame, anim.frameCount)>>)>>
        ELSE <<>>)
  /\ UNCHANGED <<tables, live, history>>

UpdateModelAnimationBySlot(modelSlotIndex, animSlot, animIndex, frame) ==
  UpdateAnimationInto("UpdateModelAnimationBySlot", "UpdateModelAnimation",
                      modelSlotIndex, animSlot, animIndex, frame)

UpdateModelAnimationBonesBySlot(modelSlotIndex, animSlot, animIndex, frame) ==
  UpdateAnimationInto("UpdateModelAnimationBonesBySlot", "UpdateModelAnimationBones",
                      modelSlotIndex, animSlot, animIndex, frame)

\* IsModelAnimationValid(model, anim): the bone counts agree.
IsModelAnimationValid(model, anim) == IF model.boneCount = anim.boneCount THEN 1 ELSE 0

IsModelAnimationValidBySlot(modelSlotIndex, animSlot, animIndex) ==
  /\ IF AnimationArgsValid(modelSlotIndex, animSlot, animIndex)
     THEN ReturnsWith("IsModelAnimationValidBySlot", modelSlotIndex,
                      <<animSlot, animIndex>>,
                      IsModelAnimationValid(modelSlots[modelSlotIndex].model,
                         animationSlots[animSlot].animations.data[animIndex + 1]),
                      <<>>,
                      <<NativeCall("IsModelAnimationValid",
                                   <<modelSlots[modelSlotIndex].model.id,
                                     animationSlots[animSlot].animations.ptr,
                                     animIndex>>)>>)
     ELSE ReturnsWith("IsModelAnimationValidBySlot", modelSlotIndex,
                      <<animSlot, animIndex>>, 0, <<>>, <<>>)
  /\ UNCHANGED <<tables, live, history>>

\* The body of UnloadModelAnimationBySlot on a valid slot: the array is freed
\* only when the stored pointer is not NULL.
AnimationUnloadCalls(slot) ==
  IF slot.animations.ptr # 0
  THEN <<NativeCall("UnloadModelAnimations", slot.animations.ptr)>>
  ELSE <<>>

ClearAnimationSlot(slots, animSlot) == [slots EXCEPT ![animSlot] = EmptyAnimationSlot]

UnloadModelAnimationBySlot(animSlot) ==
  IF AnimationSlotBad(animSlot)
  THEN /\ Returns("UnloadModelAnimationBySlot", animSlot, 0, <<>>, <<>>)
       /\ UNCHANGED <<tables, live, history>>
  ELSE /\ animationSlots' = ClearAnimationSlot(animationSlots, animSlot)
       /\ live' = live \ {animationSlots[animSlot].animations.ptr}
       /\ Released("animation", 1, {animSlot})
       /\ Returns("UnloadModelAnimationBySlot", animSlot, 0, <<>>,
                  AnimationUnloadCalls(animationSlots[animSlot]))
       /\ UNCHANGED <<textureSlots, renderTextureSlots, fontSlots, shaderSlots,
                      modelSlots>>

RECURSIVE Concat(_)
Concat(seqs) == IF seqs = <<>> THEN <<>> ELSE Head(seqs) \o Concat(Tail(seqs))

UnloadAllAnimations ==
  LET loaded == {i \in 0..(MAX_ANIMATIONS - 1) : animationSlots[i].isValid}
      order == Ascending(loaded) IN
  /\ animationSlots' = [i \in 0..(MAX_ANIMATIONS - 1) |->
        IF i \in loaded THEN EmptyAnimationSlot ELSE animationSlots[i]]
  /\ live' = live \ {animationSlots[i].animations.ptr : i \in loaded}
  /\ Released("animation", Cardinality(loaded), loaded)
  /\ Returns("UnloadAllAnimations", 0, 0, <<>>,
             Concat([k \in 1..Len(order) |->
                       AnimationUnloadCalls(animationSlots[order[k]])]))
  /\ UNCHANGED <<textureSlots, renderTextureSlots, fontSlots, shaderSlots, modelSlots>>

\* outBuffer is outData: [frameCount, boneCount].
GetAnimationDataBySlot(animSlot, animIndex) ==
  /\ ReturnsWith("GetAnimationDataBySlot", animSlot, <<animIndex>>, 0,
        IF AnimationSlotBad(animSlot) THEN <<0, 0>>
        ELSE IF animIndex < 0 \/ animIndex >= animationSlots[animSlot].animCount
        THEN <<0, 0>>
        ELSE LET anim == animationSlots[animSlot].animations.data[animIndex + 1]
             IN <<anim.frameCount, anim.boneCount>>,
        <<>>)
  /\ UNCHANGED <<tables, live, history>>

\* A count whose loop starts at slot 1.
GetLoadedAnimationCountFromOne ==
  Cardinality({i \in 1..(MAX_ANIMATIONS - 1) : animationSlots[i].isValid})

GetLoadedAnimationCountValue ==
  Cardinality({i \in 0..(MAX_ANIMATIONS - 1) : animationSlots[i].isValid})

GetLoadedAnimationCount ==
  Accessor("GetLoadedAnimationCount", 0, GetLoadedAnimationCountValue)

IsAnimationSlotValidValue(animSlot) ==
  IF animSlot >= 0 /\ animSlot < MAX_ANIMATIONS /\ animationSlots[animSlot].isValid
  THEN 1 ELSE 0

IsAnimationSlotValid(animSlot) ==
  Accessor("IsAnimationSlotValid", animSlot, IsAnimationSlotValidValue(animSlot))

AnimIndexes == {-1, 0, 1, 2}
Frames == {-1, 1, 5}
MeshIndexes == {-1, 0, 2}

(* ======================================================================= *)
(* ray-collision-wrapper.c                                                 *)
(* ======================================================================= *)
Rays == {NULL, "ray"}

\* The common body of the sphere, box and triangle wrappers; args are the
\* pointers the function checks, the last one outBuffer.
RayCollisionInto(op, fn, args) ==
  /\ IF \E k \in 1..Len(args) : args[k] = NULL
     THEN /\ Result(op, 0, args, 0, <<>>, <<>>)
          /\ lastCollision' = lastCollision
     ELSE \E collision \in RayResults :
            /\ lastCollision' = collision
            /\ Result(op, 0, args, 0, CollisionFloats(collision), <<NativeCall(fn, 0)>>)
  /\ UNCHANGED <<tables, live, history>>

GetRayCollisionSphereWrapper(ray, out) ==
  RayCollisionInto("GetRayCollisionSphereWrapper", "GetRayCollisionSphere", <<ray, out>>)

GetRayCollisionBoxWrapper(ray, boxData, out) ==
  RayCollisionInto("GetRayCollisionBoxWrapper", "GetRayCollisionBox",
                   <<ray, boxData, out>>)

GetRayCollisionTriangleWrapper(ray, out) ==
  RayCollisionInto("GetRayCollisionTriangleWrapper", "GetRayCollisionTriangle",
                   <<ray, out>>)

\* A getter of lastCollision.
LastCollisionGetter(op, value) ==
  /\ Result(op, 0, <<>>, value, <<>>, <<>>)
  /\ UNCHANGED <<tables, live, history, lastCollision>>

GetLastCollisionHit == LastCollisionGetter("GetLastCollisionHit", lastCollision.hit)

GetLastCollisionDistance ==
  LastCollisionGetter("GetLastCollisionDistance", lastCollision.distance)

GetLastCollisionPointX ==
  LastCollisionGetter("GetLastCollisionPointX", lastCollision.point[1])

GetLastCollisionPointY ==
  LastCollisionGetter("GetLastCollisionPointY", lastCollision.point[2])

GetLastCollisionPointZ ==
  LastCollisionGetter("GetLastCollisionPointZ", lastCollision.point[3])

GetLastCollisionNormalX ==
  LastCollisionGetter("GetLastCollisionNormalX", lastCollision.normal[1])

GetLastCollisionNormalY ==
  LastCollisionGetter("GetLastCollisionNormalY", lastCollision.normal[2])

GetLastCollisionNormalZ ==
  LastCollisionGetter("GetLastCollisionNormalZ", lastCollision.normal[3])

GetLastCollisionData(out) ==
  /\ Result("GetLastCollisionData", 0, <<out>>, 0,
            IF out = NULL THEN <<>> ELSE CollisionFloats(lastCollision), <<>>)
  /\ UNCHANGED <<tables, live, history, lastCollision>>

(* ======================================================================= *)
\* The static tables as the program starts: zero-initialised, nothing loaded,
\* no call made yet.
Loaded ==
  /\ textureSlots = [i \in 0..(MAX_TEXTURES - 1) |-> EmptyTextureSlot]
  /\ renderTextureSlots = [i \in 0..(MAX_RENDER_TEXTURES - 1) |-> EmptyRenderTextureSlot]
  /\ fontSlots = [i \in 0..(MAX_FONTS - 1) |-> EmptyFontSlot]
  /\ shaderSlots = [i \in 0..(MAX_SHADER_SLOTS - 1) |-> EmptyShaderSlot]
  /\ modelSlots = [i \in 0..(MAX_MODELS - 1) |-> EmptyModelSlot]
  /\ animationSlots = [i \in 0..(MAX_ANIMATIONS - 1) |-> EmptyAnimationSlot]
  /\ lastCollision = ZeroRayCollision
  /\ live = {}
  /\ call = [op |-> "none", slot |-> 0, args |-> <<>>]
  /\ ret = 0
  /\ outBuffer = <<>>
  /\ nativeCalls = <<>>
  /\ handedOut = [k \in Kinds |-> {}]
  /\ balance = [k \in Kinds |-> 0]
  /\ threads = [t \in Threads |-> IdleThread]

\* The host of Spec and SpecAnimation takes the arguments of each call as it
\* makes it.
NoInput == [text |-> NullText, fontSize |-> 0, maxWidth |-> 0, out |-> NULL, bufferSize |-> 0]

Init == Loaded /\ unit \in Units /\ input = NoInput

\* The host calls the functions of the wrapper file it uses, in any order.
\* The three functions that apply an animation to a model are exercised by
\* SpecAnimation below.
Next ==
  \* texture-wrapper.c
  \/ \E fileName \in TextureFiles : LoadTextureToSlot(fileName)
  \/ \E h \in TextureHandles : GetTextureWidthBySlot(h)
  \/ \E h \in TextureHandles : GetTextureHeightBySlot(h)
  \/ \E h \in TextureHandles : GetTextureMipmapsBySlot(h)
  \/ \E h \in TextureHandles : GetTextureFormatBySlot(h)
  \/ \E h \in TextureHandles : GetTextureIdBySlot(h)
  \/ \E h \in TextureHandles : UnloadTextureBySlot(h)
  \/ \E h \in TextureHandles : DrawTextureBySlot(h)
  \/ \E h \in TextureHandles : DrawTextureProBySlot(h)
  \/ GetLoadedTextureCount
  \/ UnloadAllTextures
  \* render-texture-wrapper.c
  \/ \E size \in RenderSizes : LoadRenderTextureToSlot(size[1], size[2])
  \/ \E h \in RenderTextureHandles : GetRenderTextureIdBySlot(h)
  \/ \E h \in RenderTextureHandles : GetRenderTextureColorIdBySlot(h)
  \/ \E h \in RenderTextureHandles : GetRenderTextureColorWidthBySlot(h)
  \/ \E h \in RenderTextureHandles : GetRenderTextureColorHeightBySlot(h)
  \/ \E h \in RenderTextureHandles : GetRenderTextureColorMipmapsBySlot(h)
  \/ \E h \in RenderTextureHandles : GetRenderTextureColorFormatBySlot(h)
  \/ \E h \in RenderTextureHandles : GetRenderTextureDepthIdBySlot(h)
  \/ \E h \in RenderTextureHandles : GetRenderTextureDepthWidthBySlot(h)
  \/ \E h \in RenderTextureHandles : GetRenderTextureDepthHeightBySlot(h)
  \/ \E h \in RenderTextureHandles : GetRenderTextureDepthMipmapsBySlot(h)
  \/ \E h \in RenderTextureHandles : GetRenderTextureDepthFormatBySlot(h)
  \/ \E h \in RenderTextureHandles : UnloadRenderTextureBySlot(h)
  \/ GetLoadedRenderTextureCount
  \/ UnloadAllRenderTextures
  \* font-wrapper.c
  \/ \E fileName \in FontFiles, fontSize \in FontSizes : LoadFontToSlot(fileName, fontSize)
  \/ \E h \in FontHandles : UnloadFontBySlot(h)
  \/ \E h \in FontHandles : IsFontSlotValid(h)
  \/ GetLoadedFontCount
  \/ UnloadAllFonts
  \/ \E h \in FontHandles, out \in Buffers : GetFontDataBySlot(h, out)
  \/ \E h \in FontHandles : GetFontBaseSize(h)
  \/ \E h \in FontHandles : GetFontGlyphCount(h)
  \/ \E h \in FontHandles, c \in TextCalls :
       MeasureTextBySlot(h, c.text, c.fontSize, 0, c.out)
  \/ \E h \in FontHandles, c \in {t \in TextCalls : t.out # NULL} :
       DrawTextBySlot(h, c.text, c.fontSize, White)
  \/ \E h \in FontHandles, c \in WrapCalls :
       WrapTextBySlot(h, c.text, c.fontSize, 0, c.maxWidth, c.out, c.bufferSize)
  \* shader-wrapper.c
  \/ \E vs \in ShaderSources, fs \in ShaderSources : LoadShaderToSlot(vs, fs)
  \/ \E vs \in ShaderSources, fs \in ShaderSources : LoadShaderFromMemoryToSlot(vs, fs)
  \/ \E h \in ShaderHandles : UnloadShaderBySlot(h)
  \/ UnloadAllShaders
  \/ \E h \in ShaderHandles : IsShaderSlotValid(h)
  \/ GetLoadedShaderCount
  \/ \E h \in ShaderHandles : BeginShaderModeBySlot(h)
  \/ \E h \in ShaderHandles, name \in UniformNames : GetShaderLocationBySlot(h, name)
  \/ \E h \in ShaderHandles, loc \in LocIndexes : SetShaderValueFloatBySlot(h, loc)
  \/ \E h \in ShaderHandles, loc \in LocIndexes : SetShaderValueIntBySlot(h, loc)
  \/ \E h \in ShaderHandles, loc \in LocIndexes : SetShaderValueVec2BySlot(h, loc)
  \/ \E h \in ShaderHandles, loc \in LocIndexes : SetShaderValueVec3BySlot(h, loc)
  \/ \E h \in ShaderHandles, loc \in LocIndexes : SetShaderValueVec4BySlot(h, loc)
  \/ \E h \in ShaderHandles, loc \in LocIndexes, t \in LocIndexes :
       SetShaderValueTextureBySlot(h, loc, t)
  \* model-wrapper.c
  \/ \E fileName \in ModelFiles : LoadModelToSlot(fileName)
  \/ \E h \in ModelHandles : GetModelMeshCountBySlot(h)
  \/ \E h \in ModelHandles : GetModelMaterialCountBySlot(h)
  \/ \E h \in ModelHandles : GetModelBoundingBoxMinXBySlot(h)
  \/ \E h \in ModelHandles : GetModelBoundingBoxMinYBySlot(h)
  \/ \E h \in ModelHandles : GetModelBoundingBoxMinZBySlot(h)
  \/ \E h \in ModelHandles : GetModelBoundingBoxMaxXBySlot(h)
  \/ \E h \in ModelHandles : GetModelBoundingBoxMaxYBySlot(h)
  \/ \E h \in ModelHandles : GetModelBoundingBoxMaxZBySlot(h)
  \/ \E h \in ModelHandles : UnloadModelBySlot(h)
  \/ \E h \in ModelHandles : DrawModelBySlot(h)
  \/ \E h \in ModelHandles : DrawModelExBySlot(h)
  \/ \E h \in ModelHandles : DrawModelWiresBySlot(h)
  \/ GetLoadedModelCount
  \/ UnloadAllModels
  \/ \E h \in ModelHandles : IsModelSlotValid(h)
  \/ \E h \in ModelHandles : GetModelPointerFromSlot(h)
  \/ \E h \in ModelHandles : GetModelDataBySlot(h)
  \/ \E h \in ModelHandles : GetModelBoundingBoxBySlot(h)
  \/ \E h \in ModelHandles, meshIndex \in MeshIndexes : GetRayCollisionModelMesh(h, meshIndex)
  \/ \E fileName \in AnimationFiles : LoadModelAnimationsToSlot(fileName)
  \/ \E a \in AnimationHandles : UnloadModelAnimationBySlot(a)
  \/ UnloadAllAnimations
  \/ \E a \in AnimationHandles, animIndex \in AnimIndexes : GetAnimationDataBySlot(a, animIndex)
  \/ GetLoadedAnimationCount
  \/ \E a \in AnimationHandles : IsAnimationSlotValid(a)
  \* ray-collision-wrapper.c
  \/ \E ray \in Rays, out \in Buffers : GetRayCollisionSphereWrapper(ray, out)
  \/ \E ray \in Rays, boxData \in Buffers, out \in Buffers :
       GetRayCollisionBoxWrapper(ray, boxData, out)
  \/ \E ray \in Rays, out \in Buffers : GetRayCollisionTriangleWrapper(ray, out)
  \/ GetLastCollisionHit
  \/ GetLastCollisionDistance
  \/ GetLastCollisionPointX
  \/ GetLastCollisionPointY
  \/ GetLastCollisionPointZ
  \/ GetLastCollisionNormalX
  \/ GetLastCollisionNormalY
  \/ GetLastCollisionNormalZ
  \/ \E out \in Buffers : GetLastCollisionData(out)

Spec == Init /\ [][Next]_vars

\* The animation system: model-wrapper.c's two tables and the functions that
\* take a handle of each.  The host plays one animation index at one frame in
\* a run, input.animIndex and input.frame.
AnimationInputs == [animIndex : AnimIndexes, frame : Frames]

InitAnimation == Loaded /\ unit = "model-wrapper.c" /\ input \in AnimationInputs

NextAnimation ==
  \/ \E fileName \in ModelFiles : LoadModelToSlot(fileName)
  \/ \E h \in ModelHandles : UnloadModelBySlot(h)
  \/ UnloadAllModels
  \/ \E fileName \in AnimationFiles : LoadModelAnimationsToSlot(fileName)
  \/ \E a \in AnimationHandles : UnloadModelAnimationBySlot(a)
  \/ UnloadAllAnimations
  \/ \E m \in ModelHandles, a \in AnimationHandles :
       UpdateModelAnimationBySlot(m, a, input.animIndex, input.frame)
  \/ \E m \in ModelHandles, a \in AnimationHandles :
       UpdateModelAnimationBonesBySlot(m, a, input.animIndex, input.frame)
  \/ \E m \in ModelHandles, a \in AnimationHandles :
       IsModelAnimationValidBySlot(m, a, input.animIndex)

SpecAnimation == InitAnimation /\ [][NextAnimation]_vars

\* The colours: the host passes one packed colour, of the bytes input.bytes,
\* to the functions that unpack it in raylib-wrapper.c, triangle-wrapper.c and
\* font-wrapper.c.
ColorBytes == {0, 1, 128, 255}

ColorInputs == [bytes : [1..4 -> ColorBytes]]

InitColor == Loaded /\ unit = "colours" /\ input \in ColorInputs

NextColor ==
  \/ ClearBackgroundWrapper(PackU32(input.bytes))
  \/ IntToColor(PackU32(input.bytes))
  \/ LoadFontToSlot("font.ttf", 1)
  \/ \E h \in FontHandles : DrawTextBySlot(h, <<97>>, 1, PackU32(input.bytes))

SpecColor == InitColor /\ [][NextColor]_vars

\* Two threads of the host in texture-wrapper.c, each making one call after
\* another.  In a run the threads make the calls of input.race at the same
\* time, and the host makes the other calls while both threads are idle.
ThreadInputs == [race : {"load", "unload"}]

AllIdle == \A t \in Threads : threads[t].pc = "idle"

InitThreads == Loaded /\ unit = "texture-wrapper.c" /\ input \in ThreadInputs

NextThreads ==
  \/ input.race = "load"
       /\ \E t \in Threads, fileName \in TextureFiles : LoadTextureToSlotScan(t, fileName)
  \/ \E t \in Threads : LoadTextureToSlotLoad(t)
  \/ \E t \in Threads : LoadTextureToSlotStore(t)
  \/ input.race = "load" /\ AllIdle /\ \E h \in TextureHandles : UnloadTextureBySlot(h)
  \/ input.race = "unload" /\ AllIdle
       /\ \E fileName \in TextureFiles : LoadTextureToSlot(fileName)
  \/ input.race = "unload"
       /\ \E t \in Threads, h \in TextureHandles : UnloadTextureBySlotCheck(t, h)
  \/ \E t \in Threads : UnloadTextureBySlotUnload(t)
  \/ \E t \in Threads : UnloadTextureBySlotClear(t)
  \/ \E t \in Threads : ThreadReturns(t)

SpecThreads == InitThreads /\ [][NextThreads]_vars

\* The uniform-location cache: the host loads and unloads shaders and looks
\* uniforms up through one handle, input.slotIndex.  CacheNames holds one name
\* more than a cache has room for ("v", "aw", "aau", ...); the names looked up
\* include two that differ only after the 63rd character.
CacheNames ==
  {[j \in 1..k |-> IF j = k THEN 117 + (k % 3) ELSE 97] : k \in 1..(MAX_LOCATION_CACHE + 1)}

\* A name as long as a cache entry can hold (63 characters, the last one "u"),
\* and a longer one that begins with it and ends in "v".
LongestStoredName ==
  [j \in 1..(LOCATION_NAME_SIZE - 1) |-> IF j = LOCATION_NAME_SIZE - 1 THEN 117 ELSE 97]

LongName == LongestStoredName \o <<118>>

LookupNames == CacheNames \cup {NullText, <<120>>, LongestStoredName, LongName}

ShaderInputs == [slotIndex : ShaderHandles]

InitShader == Loaded /\ unit = "shader-wrapper.c" /\ input \in ShaderInputs

NextShader ==
  \/ LoadShaderToSlot("shader.glsl", "shader.glsl")
  \/ LoadShaderFromMemoryToSlot("shader.glsl", "shader.glsl")
  \/ \E h \in ShaderHandles : UnloadShaderBySlot(h)
  \/ UnloadAllShaders
  \/ \E uniformName \in LookupNames : GetShaderLocationBySlot(input.slotIndex, uniformName)

SpecShader == InitShader /\ [][NextShader]_vars

\* Ray queries of both files: the host loads and unloads models, queries their
\* meshes through model-wrapper.c, and uses the queries and getters of
\* ray-collision-wrapper.c in between.
InitRay == Loaded /\ unit = "ray collisions" /\ input = NoInput

NextRay ==
  \/ \E fileName \in ModelFiles : LoadModelToSlot(fileName)
  \/ \E h \in ModelHandles : UnloadModelBySlot(h)
  \/ \E h \in ModelHandles, meshIndex \in MeshIndexes : GetRayCollisionModelMesh(h, meshIndex)
  \/ \E ray \in Rays, out \in Buffers : GetRayCollisionSphereWrapper(ray, out)
  \/ \E ray \in Rays, boxData \in Buffers, out \in Buffers :
       GetRayCollisionBoxWrapper(ray, boxData, out)
  \/ \E ray \in Rays, out \in Buffers : GetRayCollisionTriangleWrapper(ray, out)
  \/ GetLastCollisionHit
  \/ GetLastCollisionDistance
  \/ GetLastCollisionPointX
  \/ GetLastCollisionPointY
  \/ GetLastCollisionPointZ
  \/ GetLastCollisionNormalX
  \/ GetLastCollisionNormalY
  \/ GetLastCollisionNormalZ
  \/ \E out \in Buffers : GetLastCollisionData(out)

SpecRay == InitRay /\ [][NextRay]_vars

\* The tables side by side: the host loads and unloads resources of two kinds
\* in one run, input.kinds.
TablePairs == {[kinds |-> {a, b}] : a, b \in Kinds} \ {[kinds |-> {a}] : a \in Kinds}

InitTables == Loaded /\ unit = "slot tables" /\ input \in TablePairs

NextTables ==
  \/ "texture" \in input.kinds /\ \E fileName \in TextureFiles : LoadTextureToSlot(fileName)
  \/ "texture" \in input.kinds /\ \E h \in TextureHandles : UnloadTextureBySlot(h)
  \/ "texture" \in input.kinds /\ UnloadAllTextures
  \/ "renderTexture" \in input.kinds
       /\ \E size \in RenderSizes : LoadRenderTextureToSlot(size[1], size[2])
  \/ "renderTexture" \in input.kinds
       /\ \E h \in RenderTextureHandles : UnloadRenderTextureBySlot(h)
  \/ "renderTexture" \in input.kinds /\ UnloadAllRenderTextures
  \/ "font" \in input.kinds /\ LoadFontToSlot("font.ttf", 1)
  \/ "font" \in input.kinds /\ \E h \in FontHandles : UnloadFontBySlot(h)
  \/ "font" \in input.kinds /\ UnloadAllFonts
  \/ "shader" \in input.kinds /\ LoadShaderToSlot("shader.glsl", "shader.glsl")
  \/ "shader" \in input.kinds /\ \E h \in ShaderHandles : UnloadShaderBySlot(h)
  \/ "shader" \in input.kinds /\ UnloadAllShaders
  \/ "model" \in input.kinds /\ \E fileName \in ModelFiles : LoadModelToSlot(fileName)
  \/ "model" \in input.kinds /\ \E h \in ModelHandles : UnloadModelBySlot(h)
  \/ "model" \in input.kinds /\ UnloadAllModels
  \/ "animation" \in input.kinds
       /\ \E fileName \in AnimationFiles : LoadModelAnimationsToSlot(fileName)
  \/ "animation" \in input.kinds /\ \E a \in AnimationHandles : UnloadModelAnimationBySlot(a)
  \/ "animation" \in input.kinds /\ UnloadAllAnimations

SpecTables == InitTables /\ [][NextTables]_vars

\* Text wrapping: the host loads fonts and wraps one text, the arguments of
\* the run, with any handle.
InitWrap == Loaded /\ unit = "font-wrapper.c" /\ input \in WrapInputs

NextWrap ==
  \/ LoadFontToSlot("font.ttf", 1)
  \/ \E h \in FontHandles :
       WrapTextBySlot(h, input.text, input.fontSize, 0, input.maxWidth, input.out,
                      input.bufferSize)

SpecWrap == InitWrap /\ [][NextWrap]_vars

(* ======================================================================= *)
(* Properties of the slot tables                                           *)
(* ======================================================================= *)
\* Per-kind views of the six tables.
Capacity(kind) ==
  CASE kind = "texture" -> MAX_TEXTURES
    [] kind = "renderTexture" -> MAX_RENDER_TEXTURES
    [] kind = "font" -> MAX_FONTS
    [] kind = "shader" -> MAX_SHADER_SLOTS
    [] kind = "model" -> MAX_MODELS
    [] kind = "animation" -> MAX_ANIMATIONS

Slots(kind) ==
  CASE kind = "texture" -> textureSlots
    [] kind = "renderTexture" -> renderTextureSlots
    [] kind = "font" -> fontSlots
    [] kind = "shader" -> shaderSlots
    [] kind = "model" -> modelSlots
    [] kind = "animation" -> animationSlots

\* The occupancy flag of a slot: isValid for shaders and animations, isLoaded
\* for the other kinds.
SlotOccupied(kind, slot) ==
  IF kind \in {"shader", "animation"} THEN slot.isValid ELSE slot.isLoaded

OccupiedSlots(kind) ==
  {i \in 0..(Capacity(kind) - 1) : SlotOccupied(kind, Slots(kind)[i])}

\* The native object a slot holds, by its identity in the library.
ResourceId(kind, slot) ==
  CASE kind = "texture" -> slot.texture.id
    [] kind = "renderTexture" -> slot.renderTexture.id
    [] kind = "font" -> slot.font.texture.id
    [] kind = "shader" -> slot.shader.id
    [] kind = "model" -> slot.model.id
    [] kind = "animation" -> slot.animations.ptr

LoadedCount(kind) ==
  CASE kind = "texture" -> GetLoadedTextureCountValue
    [] kind = "renderTexture" -> GetLoadedRenderTextureCountValue
    [] kind = "font" -> GetLoadedFontCountValue
    [] kind = "shader" -> GetLoadedShaderCountValue
    [] kind = "model" -> GetLoadedModelCountValue
    [] kind = "animation" -> GetLoadedAnimationCountValue

LoadOps(kind) ==
  CASE kind = "texture" -> {"LoadTextureToSlot"}
    [] kind = "renderTexture" -> {"LoadRenderTextureToSlot"}
    [] kind = "font" -> {"LoadFontToSlot"}
    [] kind = "shader" -> {"LoadShaderToSlot", "LoadShaderFromMemoryToSlot"}
    [] kind = "model" -> {"LoadModelToSlot"}
    [] kind = "animation" -> {"LoadModelAnimationsToSlot"}

UnloadOp(kind) ==
  CASE kind = "texture" -> "UnloadTextureBySlot"
    [] kind = "renderTexture" -> "UnloadRenderTextureBySlot"
    [] kind = "font" -> "UnloadFontBySlot"
    [] kind = "shader" -> "UnloadShaderBySlot"
    [] kind = "model" -> "UnloadModelBySlot"
    [] kind = "animation" -> "UnloadModelAnimationBySlot"

UnloadAllOp(kind) ==
  CASE kind = "texture" -> "UnloadAllTextures"
    [] kind = "renderTexture" -> "UnloadAllRenderTextures"
    [] kind = "font" -> "UnloadAllFonts"
    [] kind = "shader" -> "UnloadAllShaders"
    [] kind = "model" -> "UnloadAllModels"
    [] kind = "animation" -> "UnloadAllAnimations"

CountOp(kind) ==
  CASE kind = "texture" -> "GetLoadedTextureCount"
    [] kind = "renderTexture" -> "GetLoadedRenderTextureCount"
    [] kind = "font" -> "GetLoadedFontCount"
    [] kind = "shader" -> "GetLoadedShaderCount"
    [] kind = "model" -> "GetLoadedModelCount"
    [] kind = "animation" -> "GetLoadedAnimationCount"

NativeUnload(kind) ==
  CASE kind = "texture" -> "UnloadTexture"
    [] kind = "renderTexture" -> "UnloadRenderTexture"
    [] kind = "font" -> "UnloadFont"
    [] kind = "shader" -> "UnloadShader"
    [] kind = "model" -> "UnloadModel"
    [] kind = "animation" -> "UnloadModelAnimations"

\* C1 (exhaustion): in every table, once as many loads have returned a handle
\* as the table has slots, with none of them released, the next load returns
\* -1, the loaded count still equals the capacity and no slot of any table
\* is changed.
C1_Exhaustion ==
  [][\A kind \in Kinds :
       (balance[kind] = Capacity(kind) /\ call'.op \in LoadOps(kind))
         => /\ ret' = -1
            /\ LoadedCount(kind)' = Capacity(kind)
            /\ tables' = tables]_vars

\* A load of a texture was refused while every texture slot was handed out.
C1_Witness ==
  /\ balance["texture"] = MAX_TEXTURES
  /\ call.op = "LoadTextureToSlot"
  /\ ret = -1

\* C2, as the claim states it: from the load that returned h until an unload
\* of h or an UnloadAll of its table, h is valid and slot h is the very same
\* record, resource and metadata, whatever other call is made.
C2_SlotNeverChanges ==
  [][\A kind \in Kinds : \A h \in 0..(Capacity(kind) - 1) :
       /\ (call'.op \in LoadOps(kind) /\ ret' = h) => h \in OccupiedSlots(kind)'
       /\ (/\ h \in handedOut[kind]
           /\ ~(call'.op = UnloadOp(kind) /\ call'.slot = h)
           /\ call'.op # UnloadAllOp(kind))
            => /\ h \in OccupiedSlots(kind)'
               /\ Slots(kind)'[h] = Slots(kind)[h]]_vars

\* The part of a slot that is fixed when it is loaded: all of it, except the
\* uniform-location cache of a shader slot, which GetShaderLocationBySlot fills.
LoadedPart(kind, slot) ==
  IF kind = "shader" THEN [shader |-> slot.shader, isValid |-> slot.isValid] ELSE slot

\* The cache of a shader slot only grows: the entries it holds stay as they are.
CacheKept(before, after) ==
  /\ after.cacheCount >= before.cacheCount
  /\ \A k \in 1..before.cacheCount :
       /\ after.locationNames[k] = before.locationNames[k]
       /\ after.locationCache[k] = before.locationCache[k]

\* C2 (handle stability), amended: from the load that returned h until an
\* unload of h or an UnloadAll of its table, h is valid and slot h holds the
\* same native resource and the metadata stored by the load, whatever other
\* call is made; the uniform-location cache of a shader slot keeps its entries
\* and may gain new ones.
C2_HandleStability ==
  [][\A kind \in Kinds : \A h \in 0..(Capacity(kind) - 1) :
       /\ (call'.op \in LoadOps(kind) /\ ret' = h) => h \in OccupiedSlots(kind)'
       /\ (/\ h \in handedOut[kind]
           /\ ~(call'.op = UnloadOp(kind) /\ call'.slot = h)
           /\ call'.op # UnloadAllOp(kind))
            => /\ h \in OccupiedSlots(kind)'
               /\ LoadedPart(kind, Slots(kind)'[h]) = LoadedPart(kind, Slots(kind)[h])
               /\ kind = "shader" => CacheKept(shaderSlots[h], shaderSlots'[h])]_vars

\* Model handle 0 is still valid after handle 1 was loaded and unloaded again.
C2_Witness ==
  /\ call.op = "UnloadModelBySlot"
  /\ call.slot = 1
  /\ nativeCalls # <<>>
  /\ handedOut["model"] = {0}
  /\ IsModelSlotValidValue(0) = 1

\* C3 (idempotent release): an unload of a handle that is out of range, was
\* never handed out or is already released changes no slot and calls no native
\* unload; an unload of a live handle calls the native unload exactly once,
\* and a second unload of the same handle right after it is a no-op.
C3_IdempotentRelease ==
  [][\A kind \in Kinds :
       call'.op = UnloadOp(kind) =>
         /\ call'.slot \notin handedOut[kind]
              => (tables' = tables /\ nativeCalls' = <<>> /\ live' = live)
         /\ call'.slot \in handedOut[kind]
              => (/\ Len(nativeCalls') = 1
                  /\ nativeCalls'[1] =
                       NativeCall(NativeUnload(kind),
                                  ResourceId(kind, Slots(kind)[call'.slot])))
         /\ (call.op = UnloadOp(kind) /\ call.slot = call'.slot)
              => (tables' = tables /\ nativeCalls' = <<>>)]_vars

\* Font handle 0 was released earlier (handle 1, loaded after it, is still
\* out) and the last call, an unload of handle 0, reached no native unload.
C3_Witness ==
  /\ call.op = "UnloadFontBySlot"
  /\ call.slot = 0
  /\ nativeCalls = <<>>
  /\ handedOut["font"] = {1}

\* C4 (round-trip count): in every table the loaded count equals the number
\* of loads that returned a handle minus the number of handles released,
\* equals the number of occupied slots and lies in 0..capacity; and that is
\* the value GetLoaded*Count returns.
C4_RoundTripCount ==
  \A kind \in Kinds :
    /\ LoadedCount(kind) = balance[kind]
    /\ LoadedCount(kind) = Cardinality(OccupiedSlots(kind))
    /\ LoadedCount(kind) \in 0..Capacity(kind)
    /\ call.op = CountOp(kind) => ret = balance[kind]

\* GetLoadedAnimationCount returned 1 after two loads and the release of the
\* first handle.
C4_Witness ==
  /\ call.op = "GetLoadedAnimationCount"
  /\ ret = 1
  /\ handedOut["animation"] = {1}

\* The library's answer to the load a call made, as nativeCalls records it,
\* reports failure: id 0, or for animations a NULL array or a count of 0.
LoadReportedFailure(kind, calls) ==
  /\ calls # <<>>
  /\ IF kind = "animation"
     THEN calls[1].res[1] = 0 \/ calls[1].res[2] = 0
     ELSE calls[1].res = 0

\* C5 (failed load): a load whose library call reports failure returns -1 and
\* leaves every table exactly as it was, the scanned slot still Empty; and a
\* load returns -1 only without having touched a table.
C5_FailedLoad ==
  [][\A kind \in Kinds :
       call'.op \in LoadOps(kind) =>
         /\ LoadReportedFailure(kind, nativeCalls')
              => (/\ ret' = -1
                  /\ tables' = tables
                  /\ OccupiedSlots(kind)' = OccupiedSlots(kind)
                  /\ history' = history)
         /\ ret' = -1 => tables' = tables]_vars

\* LoadRenderTexture reported failure while slot 1 was free, and the table
\* still holds only handle 0.
C5_Witness ==
  /\ call.op = "LoadRenderTextureToSlot"
  /\ nativeCalls = <<NativeCall("LoadRenderTexture", 0)>>
  /\ ret = -1
  /\ handedOut["renderTexture"] = {0}
  /\ ~renderTextureSlots[1].isLoaded

\* Is*SlotValid of the kinds that export one.
IsSlotValidValue(kind, h) ==
  CASE kind = "font" -> IsFontSlotValidValue(h)
    [] kind = "shader" -> IsShaderSlotValidValue(h)
    [] kind = "model" -> IsModelSlotValidValue(h)
    [] kind = "animation" -> IsAnimationSlotValidValue(h)

IsSlotValidOp(kind) ==
  CASE kind = "font" -> "IsFontSlotValid"
    [] kind = "shader" -> "IsShaderSlotValid"
    [] kind = "model" -> "IsModelSlotValid"
    [] kind = "animation" -> "IsAnimationSlotValid"

\* Handles probed by the validity property: two below 0, the slots, two at and
\* above the capacity.
ProbedHandles(kind) == (0 - 2)..(Capacity(kind) + 1)

\* C6 (validity): for fonts, shaders, models and animations (textures and
\* render textures export no Is*SlotValid), Is*SlotValid(h) returns true if
\* and only if 0 <= h < capacity and slot h is occupied, that is, h was
\* returned by a load and not released since; for every h, negative values
\* and h = capacity included.
C6_ValidIffOccupied ==
  \A kind \in {"font", "shader", "model", "animation"} :
    /\ \A h \in ProbedHandles(kind) :
         /\ IsSlotValidValue(kind, h) \in {0, 1}
         /\ IsSlotValidValue(kind, h) = 1
              <=> (0 <= h /\ h < Capacity(kind) /\ h \in OccupiedSlots(kind))
         /\ IsSlotValidValue(kind, h) = 1 <=> h \in handedOut[kind]
    /\ call.op = IsSlotValidOp(kind)
         => (ret = 1 <=> call.slot \in handedOut[kind])

\* IsShaderSlotValid(0) returned false while shader handle 1 is out: slot 0
\* is in range and was released.
C6_Witness ==
  /\ call.op = "IsShaderSlotValid"
  /\ call.slot = 0
  /\ ret = 0
  /\ handedOut["shader"] = {1}

\* C7 (UnloadAll): after UnloadAll* every slot of its table is Empty, the
\* loaded count is 0, no handle that was valid is valid any more, and the
\* native unload was called exactly once for each resource the table stored
\* and for nothing else.
C7_UnloadAll ==
  [][\A kind \in Kinds :
       call'.op = UnloadAllOp(kind) =>
         /\ OccupiedSlots(kind)' = {}
         /\ LoadedCount(kind)' = 0
         /\ handedOut[kind]' = {}
         /\ \A h \in handedOut[kind] : h \notin OccupiedSlots(kind)'
         /\ Len(nativeCalls') = Cardinality(handedOut[kind])
         /\ \A k \in 1..Len(nativeCalls') : nativeCalls'[k].fn = NativeUnload(kind)
         /\ {nativeCalls'[k].res : k \in 1..Len(nativeCalls')} =
              {ResourceId(kind, Slots(kind)[h]) : h \in handedOut[kind]}
         /\ live' = live \ {ResourceId(kind, Slots(kind)[h]) : h \in handedOut[kind]}]_vars

\* UnloadAllModels released two models, each with one UnloadModel.
C7_Witness ==
  /\ call.op = "UnloadAllModels"
  /\ Len(nativeCalls) = 2
  /\ nativeCalls[1].res # nativeCalls[2].res
  /\ GetLoadedModelCountValue = 0

(* ======================================================================= *)
(* Properties of the calls made with a bad handle or a failing argument    *)
(* ======================================================================= *)
\* The read accessors of each kind: the functions that take a handle and
\* only report what its slot holds.
AccessorOps(kind) ==
  CASE kind = "texture" ->
         {"GetTextureWidthBySlot", "GetTextureHeightBySlot", "GetTextureMipmapsBySlot",
          "GetTextureFormatBySlot", "GetTextureIdBySlot"}
    [] kind = "renderTexture" ->
         RenderTextureOps \ {"LoadRenderTextureToSlot", "UnloadRenderTextureBySlot",
                             "GetLoadedRenderTextureCount", "UnloadAllRenderTextures"}
    [] kind = "font" ->
         {"IsFontSlotValid", "GetFontDataBySlot", "GetFontBaseSize", "GetFontGlyphCount",
          "MeasureTextBySlot"}
    [] kind = "shader" -> {"IsShaderSlotValid", "GetShaderLocationBySlot"}
    [] kind = "model" ->
         {"GetModelMeshCountBySlot", "GetModelMaterialCountBySlot",
          "GetModelBoundingBoxMinXBySlot", "GetModelBoundingBoxMinYBySlot",
          "GetModelBoundingBoxMinZBySlot", "GetModelBoundingBoxMaxXBySlot",
          "GetModelBoundingBoxMaxYBySlot", "GetModelBoundingBoxMaxZBySlot",
          "IsModelSlotValid", "GetModelPointerFromSlot", "GetModelDataBySlot",
          "GetModelBoundingBoxBySlot", "GetRayCollisionModelMesh"}
    [] kind = "animation" -> {"GetAnimationDataBySlot", "IsAnimationSlotValid"}

\* The last call was an accessor of the kind, made with a handle that is out
\* of range or names an Empty slot (no accessor changes which slots are
\* occupied).
BadHandleAccess(kind) ==
  call.op \in AccessorOps(kind) /\ call.slot \notin OccupiedSlots(kind)

AllZero(buffer) == \A k \in 1..Len(buffer) : buffer[k] = 0

AccessorCells(op) ==
  CASE op \in {"GetFontDataBySlot", "MeasureTextBySlot", "GetAnimationDataBySlot"} -> 2
    [] op = "GetModelDataBySlot" -> 3
    [] op = "GetModelBoundingBoxBySlot" -> 6
    [] op = "GetRayCollisionModelMesh" -> 8
    [] OTHER -> 0

\* The accessor was handed a buffer: the two font accessors take one that may
\* be NULL, as the last of the recorded arguments.
AccessorBufferGiven ==
  call.op \in {"GetFontDataBySlot", "MeasureTextBySlot"}
    => call.args[Len(call.args)] # NULL

BufferOps ==
  {"GetFontDataBySlot", "MeasureTextBySlot", "WrapTextBySlot", "LoadModelToSlot",
   "GetModelDataBySlot", "GetModelBoundingBoxBySlot", "GetRayCollisionModelMesh",
   "LoadModelAnimationsToSlot", "GetAnimationDataBySlot",
   "GetRayCollisionSphereWrapper", "GetRayCollisionBoxWrapper",
   "GetRayCollisionTriangleWrapper", "GetLastCollisionData"}

\* The buffer argument of the last call, for the functions whose buffer may be
\* NULL in the calls made here; the other functions are always given one.
BufferArg ==
  CASE call.op = "WrapTextBySlot" -> call.args[5]
    [] call.op \in {"GetFontDataBySlot", "MeasureTextBySlot", "GetLastCollisionData",
                    "GetRayCollisionSphereWrapper", "GetRayCollisionBoxWrapper",
                    "GetRayCollisionTriangleWrapper"} -> call.args[Len(call.args)]
    [] OTHER -> "buffer"

\* C9 (defaults before validation): after any call of a function that reports
\* through an output buffer, made with a buffer, the buffer has been written:
\* it holds the defaults when a check failed, never its previous content.
C9_DefaultsBeforeValidation ==
  (call.op \in BufferOps /\ BufferArg # NULL) => outBuffer # <<>>

\* GetRayCollisionSphereWrapper was called with a NULL ray and a buffer, and
\* returned without writing the buffer.
C9_Witness ==
  /\ call.op = "GetRayCollisionSphereWrapper"
  /\ call.args = <<NULL, "buffer">>
  /\ outBuffer = <<>>

\* The action operations of each kind: the functions that draw with, or apply,
\* the resource of a handle.
ActionOps(kind) ==
  CASE kind = "texture" -> {"DrawTextureBySlot", "DrawTextureProBySlot"}
    [] kind = "font" -> {"DrawTextBySlot"}
    [] kind = "shader" ->
         {"BeginShaderModeBySlot", "SetShaderValueFloatBySlot", "SetShaderValueIntBySlot",
          "SetShaderValueVec2BySlot", "SetShaderValueVec3BySlot",
          "SetShaderValueVec4BySlot", "SetShaderValueTextureBySlot"}
    [] kind = "model" -> {"DrawModelBySlot", "DrawModelExBySlot", "DrawModelWiresBySlot"}
    [] OTHER -> {}

\* C10 (guarded actions): a draw, BeginShaderMode or SetShaderValue call made
\* with a handle that is out of range or names an Empty slot calls nothing of
\* the library and leaves every table unchanged; made with a valid handle it
\* changes no table either.
C10_GuardedActions ==
  [][\A kind \in Kinds :
       call'.op \in ActionOps(kind) =>
         /\ tables' = tables /\ live' = live
         /\ call'.slot \notin OccupiedSlots(kind) => nativeCalls' = <<>>]_vars

\* SetShaderValueTextureBySlot was called with the released handle 0 while
\* shader handle 1 is out, and called nothing.
C10_Witness ==
  /\ call.op = "SetShaderValueTextureBySlot"
  /\ call.slot = 0
  /\ call.args[1] = 0
  /\ nativeCalls = <<>>
  /\ handedOut["shader"] = {1}

\* The object the library returned to a load, by its identity.
NativeLoadResult(kind, calls) ==
  IF kind = "animation" THEN calls[1].res[1] ELSE calls[1].res

\* The slots of every table other than the slot h of the table of kind are
\* the same before and after the step.
OnlySlotChanged(kind, h) ==
  /\ \A other \in Kinds \ {kind} : Slots(other)' = Slots(other)
  /\ \A i \in (0..(Capacity(kind) - 1)) \ {h} : Slots(kind)'[i] = Slots(kind)[i]

\* C19: a load that returns a handle returns the lowest index whose slot was
\* Empty before the call and changes that slot only; the slot is then
\* occupied by the object this call obtained from the library, and the handle,
\* whoever held it before, passes Is*SlotValid.
C19_LowestFreeIndex ==
  [][\A kind \in Kinds :
       (call'.op \in LoadOps(kind) /\ ret' # -1)
         => /\ ret' \in (0..(Capacity(kind) - 1)) \ OccupiedSlots(kind)
            /\ \A i \in 0..(ret' - 1) : i \in OccupiedSlots(kind)
            /\ OnlySlotChanged(kind, ret')
            /\ ret' \in OccupiedSlots(kind)'
            /\ ResourceId(kind, Slots(kind)'[ret']) = NativeLoadResult(kind, nativeCalls')
            /\ kind \in {"font", "shader", "model", "animation"}
                 => \E h \in 0..(Capacity(kind) - 1) :
                      h = ret' /\ IsSlotValidValue(kind, h)' = 1]_vars

\* A model load returned handle 0 while handle 1, which is only handed out
\* when 0 is taken, is still out: 0 was released and is handed out again.
C19_Witness ==
  /\ call.op = "LoadModelToSlot"
  /\ ret = 0
  /\ handedOut["model"] = {0, 1}
  /\ IsModelSlotValidValue(0) = 1

\* The slot holds none of the metadata of a loaded resource.
MetadataCleared(kind, slot) ==
  CASE kind = "texture" -> slot.fileName = ""
    [] kind = "renderTexture" -> TRUE
    [] kind = "font" -> slot.baseSize = 0 /\ slot.glyphCount = 0
    [] kind = "shader" ->
         /\ slot.cacheCount = 0
         /\ \A k \in 1..MAX_LOCATION_CACHE :
              slot.locationNames[k] = <<>> /\ slot.locationCache[k] < 0
    [] kind = "model" ->
         slot.fileName = "" /\ slot.boundingBox = [min |-> <<0, 0, 0>>, max |-> <<0, 0, 0>>]
    [] kind = "animation" -> slot.animations.ptr = 0 /\ slot.animCount = 0

\* C20: Unload*BySlot on an occupied handle calls the native unload once, on
\* the resource stored in the slot, leaves the slot Empty with its metadata
\* cleared, and changes no other slot.
C20_UnloadClearsSlot ==
  [][\A kind \in Kinds :
       (call'.op = UnloadOp(kind) /\ call'.slot \in OccupiedSlots(kind))
         => /\ nativeCalls' =
                 <<NativeCall(NativeUnload(kind),
                              ResourceId(kind, Slots(kind)[call'.slot]))>>
            /\ call'.slot \notin OccupiedSlots(kind)'
            /\ MetadataCleared(kind, Slots(kind)'[call'.slot])
            /\ OnlySlotChanged(kind, call'.slot)]_vars

\* Shader 0, with a uniform location in its cache, was unloaded while shader
\* 1 stayed loaded.
C20_Witness ==
  /\ call.op = "UnloadShaderBySlot"
  /\ call.slot = 0
  /\ Len(nativeCalls) = 1
  /\ OccupiedSlots("shader") = {1}
  /\ shaderSlots[1].cacheCount > 0
  /\ MetadataCleared("shader", shaderSlots[0])

\* The functions that load into or unload from the table of a kind.
TableOps(kind) == LoadOps(kind) \cup {UnloadOp(kind), UnloadAllOp(kind)}

\* C21: a load, an unload or an unload-all of one kind leaves the slots of
\* every other kind, with their resources and metadata, as they were.
C21_TablesIndependent ==
  [][\A kind \in Kinds :
       call'.op \in TableOps(kind)
         => \A other \in Kinds \ {kind} : Slots(other)' = Slots(other)]_vars

\* Model 0 was unloaded while animation set 0 stays loaded: the handle 0 is
\* valid in one table and invalid in the other.
C21_Witness ==
  /\ call.op = "UnloadModelBySlot" /\ call.slot = 0
  /\ Len(nativeCalls) = 1
  /\ 0 \notin OccupiedSlots("model")
  /\ 0 \in OccupiedSlots("animation")
  /\ IsModelSlotValidValue(0) = 0 /\ IsAnimationSlotValidValue(0) = 1

\* The functions that take a model handle and an animation handle.
ModelAnimationOps ==
  {"UpdateModelAnimationBySlot", "UpdateModelAnimationBonesBySlot",
   "IsModelAnimationValidBySlot"}

\* The arguments name an occupied model slot, an occupied animation slot and a
\* clip of that slot.
ModelAnimationArgsGood(m, a, animIndex) ==
  /\ m \in OccupiedSlots("model")
  /\ a \in OccupiedSlots("animation")
  /\ 0 <= animIndex /\ animIndex < animationSlots[a].animCount

\* C22: UpdateModelAnimationBySlot, UpdateModelAnimationBonesBySlot and
\* IsModelAnimationValidBySlot call the library only when the model handle is
\* valid, the animation handle is valid and 0 <= animIndex < animCount;
\* otherwise they call nothing, leave the tables as they were, and
\* IsModelAnimationValidBySlot returns false.
C22_AnimationGuards ==
  [][call'.op \in ModelAnimationOps
       => LET good == ModelAnimationArgsGood(call'.slot, call'.args[1], call'.args[2])
          IN /\ good => Len(nativeCalls') = 1
             /\ ~good => /\ nativeCalls' = <<>>
                         /\ tables' = tables
                         /\ call'.op = "IsModelAnimationValidBySlot" => ret' = 0]_vars

\* An update with the handle of an animation set that was unloaded, on a loaded
\* model: the set took the first native object, the model the second.
C22_Witness ==
  /\ call.op = "UpdateModelAnimationBySlot"
  /\ call.slot = 0 /\ call.args = <<0, 0>>
  /\ OccupiedSlots("model") = {0} /\ OccupiedSlots("animation") = {}
  /\ modelSlots[0].model.id = 2 /\ live = {2}
  /\ nativeCalls = <<>>

\* The names a shader slot has in its cache.
CachedNames(slot) == {slot.locationNames[k] : k \in 1..slot.cacheCount}

\* C23: the uniform-location cache of a shader slot is bounded and append-only.
\* cacheCount stays in 0..MAX_LOCATION_CACHE; while the slot stays occupied a
\* call keeps every entry and adds at most one, and only
\* GetShaderLocationBySlot adds; a lookup of a name that is not cached, made
\* with the cache full, returns the location and stores nothing; an unload and
\* a load leave the slot with cacheCount 0.
C23_CacheBoundedAppendOnly ==
  [][\A h \in 0..(MAX_SHADER_SLOTS - 1) :
       LET before == shaderSlots[h]
           after == shaderSlots'[h]
       IN /\ after.cacheCount \in 0..MAX_LOCATION_CACHE
          /\ (before.isValid /\ after.isValid)
               => /\ CacheKept(before, after)
                  /\ after.cacheCount <= before.cacheCount + 1
                  /\ after.cacheCount > before.cacheCount
                       => call'.op = "GetShaderLocationBySlot" /\ call'.slot = h
          /\ (/\ call'.op = "GetShaderLocationBySlot" /\ call'.slot = h
              /\ before.isValid /\ before.cacheCount = MAX_LOCATION_CACHE
              /\ call'.args[1] # NullText
              /\ call'.args[1] \notin CachedNames(before))
               => /\ ret' = GetShaderLocation(before.shader, call'.args[1])
                  /\ after = before
          /\ before.isValid # after.isValid => after.cacheCount = 0]_vars

\* A lookup of a name that the program has and the full cache has not.
C23_Witness ==
  /\ call.op = "GetShaderLocationBySlot" /\ call.slot = 0
  /\ shaderSlots[0].isValid /\ shaderSlots[0].cacheCount = MAX_LOCATION_CACHE
  /\ call.args[1] \in CacheNames \ CachedNames(shaderSlots[0])
  /\ ret # -1 /\ Len(nativeCalls) = 1

(* ======================================================================= *)
(* Properties of the uniform-location cache with long names (SpecShader)   *)
(* ======================================================================= *)
\* The last call was a lookup through an occupied shader slot with a name.
LookupAnswered ==
  /\ call.op = "GetShaderLocationBySlot"
  /\ call.slot \in 0..(MAX_SHADER_SLOTS - 1)
  /\ shaderSlots[call.slot].isValid
  /\ call.args[1] # NullText

\* C33 (cache transparency): a lookup through an occupied shader slot returns
\* the location GetShaderLocation gives for the slot's shader and the name
\* looked up, whatever was looked up before and whatever the length of the name.
C33_CacheTransparent ==
  LookupAnswered =>
    ret = GetShaderLocation(shaderSlots[call.slot].shader, call.args[1])

\* The 63-character name was looked up after the longer name that begins
\* with it: the call was answered from the cache, with the location of the
\* longer name.
C33_Witness ==
  /\ LookupAnswered
  /\ call.args[1] = LongestStoredName
  /\ nativeCalls = <<>>
  /\ ret = GetShaderLocation(shaderSlots[call.slot].shader, LongName)
  /\ ret # GetShaderLocation(shaderSlots[call.slot].shader, LongestStoredName)

\* C34 (no duplicate cache entries): in an occupied shader slot no two cache
\* entries store the same name, so that a repeated lookup of a resolved name
\* adds no entry.
C34_NoDuplicateEntries ==
  \A h \in 0..(MAX_SHADER_SLOTS - 1) :
    shaderSlots[h].isValid =>
      \A j, k \in 1..shaderSlots[h].cacheCount :
        shaderSlots[h].locationNames[j] = shaderSlots[h].locationNames[k] => j = k

\* The name of 64 characters was looked up twice: each lookup called
\* GetShaderLocation and added an entry, and both entries store its first 63
\* characters.
C34_Witness ==
  /\ LookupAnswered
  /\ call.args[1] = LongName
  /\ Len(nativeCalls) = 1
  /\ shaderSlots[call.slot].cacheCount = 2
  /\ shaderSlots[call.slot].locationNames[1] = LongestStoredName
  /\ shaderSlots[call.slot].locationNames[2] = LongestStoredName
  /\ shaderSlots[call.slot].locationCache[1] = shaderSlots[call.slot].locationCache[2]

(* ======================================================================= *)
(* Properties of the animation frame (SpecAnimation)                       *)
(* ======================================================================= *)
\* The last call was an update that reached the library.
AnimationUpdated ==
  /\ call.op \in {"UpdateModelAnimationBySlot", "UpdateModelAnimationBonesBySlot"}
  /\ nativeCalls # <<>>

\* The clip the last update selected.
UpdatedClip == animationSlots[call.args[1]].animations.data[call.args[2] + 1]

\* C35 (frame clamping): whenever one of the two update functions calls the
\* library, the frame it passes lies in 0..frameCount-1 of the selected clip,
\* for every frame asked for and every frameCount, 0 included.
C35_FrameInRange ==
  AnimationUpdated =>
    /\ 0 <= nativeCalls[1].res[4]
    /\ nativeCalls[1].res[4] <= UpdatedClip.frameCount - 1

\* An update of the clip that has no frame: the library was called with
\* frame -1.
C35_Witness ==
  /\ AnimationUpdated
  /\ call.op = "UpdateModelAnimationBonesBySlot"
  /\ UpdatedClip.frameCount = 0
  /\ input.frame = 5
  /\ nativeCalls[1].res[4] = -1

(* ======================================================================= *)
(* Properties of the last collision (SpecRay)                              *)
(* ======================================================================= *)
\* The three queries of ray-collision-wrapper.c and its eight getters of one
\* field each, in the order of the fields in the output buffer.
RayQueries ==
  {"GetRayCollisionSphereWrapper", "GetRayCollisionBoxWrapper",
   "GetRayCollisionTriangleWrapper"}

LastCollisionGetters ==
  <<"GetLastCollisionHit", "GetLastCollisionDistance", "GetLastCollisionPointX",
    "GetLastCollisionPointY", "GetLastCollisionPointZ", "GetLastCollisionNormalX",
    "GetLastCollisionNormalY", "GetLastCollisionNormalZ">>

\* The query of this step passed its null checks: it has no NULL argument.
QueryAccepted == call'.op \in RayQueries /\ \A k \in 1..Len(call'.args) : call'.args[k] # NULL

\* C37 (last-collision tracking): the stored result is all zero before any
\* query; a query of ray-collision-wrapper.c that passed its null checks
\* stores the result it reports, in the order hit, distance, point x y z,
\* normal x y z; a rejected query, a getter and every function of the model
\* table, GetRayCollisionModelMesh included, leave the stored result as it
\* was; and each getter returns its field of the stored result,
\* GetLastCollisionData all eight.
C37_LastCollisionTracked ==
  /\ lastCollision = ZeroRayCollision
  /\ [][/\ QueryAccepted
             => /\ Len(nativeCalls') = 1
                /\ outBuffer' = CollisionFloats(lastCollision')
                /\ Len(outBuffer') = 8
        /\ ~QueryAccepted
             => /\ lastCollision' = lastCollision
                /\ call'.op \in RayQueries => outBuffer' = <<>> /\ nativeCalls' = <<>>
        /\ \A k \in 1..8 :
             call'.op = LastCollisionGetters[k]
               => ret' = CollisionFloats(lastCollision)[k]
        /\ (call'.op = "GetLastCollisionData" /\ call'.args[1] # NULL)
             => outBuffer' = CollisionFloats(lastCollision)]_vars

\* After a query of ray-collision-wrapper.c stored a hit at distance 5, a mesh
\* query on a loaded model reported a hit at distance 9, and the stored
\* result is still the one at distance 5.
C37_Witness ==
  /\ unit = "ray collisions"
  /\ call.op = "GetRayCollisionModelMesh" /\ Len(nativeCalls) = 1
  /\ outBuffer = <<1, 9, 4, 5, 6, 1, 0, 0>>
  /\ CollisionFloats(lastCollision) = <<1, 5, 1, 2, 3, 0, 1, 0>>

(* ======================================================================= *)
(* Properties of the colours (SpecColor)                                   *)
(* ======================================================================= *)
\* The colour whose channels r, g, b, a are the bytes given.
Channels(r, g, b, a) == [r |-> r, g |-> g, b |-> b, a |-> a]

\* C30: ColorFromU32 of raylib-wrapper.c and IntToColor of triangle-wrapper.c
\* take r from the lowest byte of the packed colour, then g, b, and a from the
\* highest, and agree on every colour; ColorFromU32 of font-wrapper.c takes r
\* from the highest byte, then g, b, and a from the lowest.  The two give the
\* same colour exactly when the four bytes read the same in both directions.
C30_ColourUnpacking ==
  unit = "colours" =>
    LET bytes == input.bytes
        c == PackU32(bytes)
    IN /\ call.op = "ClearBackgroundWrapper"
            => nativeCalls[1].res = Channels(bytes[1], bytes[2], bytes[3], bytes[4])
       /\ call.op = "IntToColor"
            => /\ ret = Channels(bytes[1], bytes[2], bytes[3], bytes[4])
               /\ ret = ColorFromU32(call.args[1])
       /\ (call.op = "DrawTextBySlot" /\ nativeCalls # <<>>)
            => /\ nativeCalls[1].tint = Channels(bytes[4], bytes[3], bytes[2], bytes[1])
               /\ (nativeCalls[1].tint = ColorFromU32(call.args[3]))
                    <=> (bytes[1] = bytes[4] /\ bytes[2] = bytes[3])

\* A text drawn in the colour of bytes 255, 0, 0, 128: the font file reads it
\* as r = 128, a = 255.
C30_Witness ==
  /\ unit = "colours"
  /\ call.op = "DrawTextBySlot" /\ Len(nativeCalls) = 1
  /\ input.bytes = <<255, 0, 0, 128>>
  /\ nativeCalls[1].tint = Channels(128, 0, 0, 255)

(* ======================================================================= *)
(* Properties of the native resources (Spec)                               *)
(* ======================================================================= *)
\* The native objects the occupied slots of the six tables hold.
StoredResources ==
  UNION {{ResourceId(kind, Slots(kind)[i]) : i \in OccupiedSlots(kind)} : kind \in Kinds}

\* C31 (native resource accounting): after every sequence of load, unload and
\* unload-all calls the native objects that were created and not yet unloaded
\* are exactly the objects the occupied slots hold; in particular a load that
\* returned -1 has left no native object alive.
C31_NativeResourceAccounting == live = StoredResources

\* LoadModelAnimations gave an allocated array of no animation: the load
\* returned -1, no animation slot is occupied, and the array is still alive.
C31_Witness ==
  /\ call.op = "LoadModelAnimationsToSlot"
  /\ nativeCalls = <<NativeCall("LoadModelAnimations", <<EmptyArrayAddress, 0>>)>>
  /\ ret = -1
  /\ OccupiedSlots("animation") = {}
  /\ live = {EmptyArrayAddress}

\* The resource of a slot is one the library reported as valid.
Usable(kind, slot) ==
  CASE kind = "model" -> slot.model.meshCount > 0
    [] kind = "animation" -> slot.animations.ptr # 0 /\ slot.animCount > 0
    [] OTHER -> ResourceId(kind, slot) # 0

\* The slot of a kind with every byte zero.
ZeroSlot(kind) ==
  CASE kind = "texture" -> EmptyTextureSlot
    [] kind = "renderTexture" -> EmptyRenderTextureSlot
    [] kind = "font" -> EmptyFontSlot
    [] kind = "shader" -> EmptyShaderSlot
    [] kind = "model" -> EmptyModelSlot
    [] kind = "animation" -> EmptyAnimationSlot

\* C32 as stated (occupied implies usable, empty implies zeroed): every
\* occupied slot holds a resource the library reported as valid, and every
\* empty slot has its resource and its metadata zeroed.
C32_EmptySlotsZeroed ==
  \A kind \in Kinds : \A i \in 0..(Capacity(kind) - 1) :
    LET slot == Slots(kind)[i] IN
    IF SlotOccupied(kind, slot) THEN Usable(kind, slot) ELSE slot = ZeroSlot(kind)

\* C32 (occupied implies usable, empty implies cleared): every occupied slot
\* holds a resource the library reported as valid; every empty slot has a
\* zeroed resource and zeroed metadata, except that the locationCache cells of
\* a shader slot that has been unloaded hold -1 (its cacheCount is 0 and its
\* names are empty).
C32_OccupiedUsableEmptyCleared ==
  \A kind \in Kinds : \A i \in 0..(Capacity(kind) - 1) :
    LET slot == Slots(kind)[i] IN
    IF SlotOccupied(kind, slot)
    THEN Usable(kind, slot)
    ELSE \/ slot = ZeroSlot(kind)
         \/ /\ kind = "shader"
            /\ slot = [ZeroSlot(kind) EXCEPT !.locationCache =
                         [k \in 1..MAX_LOCATION_CACHE |-> -1]]

\* Shader 0 was unloaded while shader 1 stayed loaded: slot 1 holds a valid
\* program, slot 0 is empty with -1 in its locationCache.
C32_Witness ==
  /\ call.op = "UnloadShaderBySlot" /\ call.slot = 0 /\ Len(nativeCalls) = 1
  /\ shaderSlots[1].isValid /\ shaderSlots[1].shader.id # 0
  /\ ~shaderSlots[0].isValid /\ shaderSlots[0].shader.id = 0
  /\ shaderSlots[0].locationCache[1] = -1

(* ======================================================================= *)
(* Properties of calls made from two threads (SpecThreads)                 *)
(* ======================================================================= *)
\* The textures that are alive in the library and that the wrapper can no
\* longer reach: no slot holds them and no thread is about to store them.
TextureOrphans ==
  live \ ({textureSlots[i].texture.id : i \in 0..(MAX_TEXTURES - 1)}
            \cup {threads[t].texture.id : t \in {u \in Threads : threads[u].pc = "store"}})

\* C24: two LoadTextureToSlot calls that run at the same time can both take
\* the index their scans found free.  The thread that stores last, into the
\* slot the other has filled since the scan, returns the same handle, the slot
\* holds its texture, and the texture stored first stays alive with no slot
\* holding it; a texture in that position is never unloaded.
C24_ConcurrentLoadOverwrites ==
  [][/\ TextureOrphans \subseteq TextureOrphans'
     /\ \A t \in Threads :
          (/\ threads[t].pc = "store" /\ threads'[t].pc = "returned"
           /\ textureSlots[threads[t].slotIndex].isLoaded)
            => LET h == threads[t].slotIndex
                   first == textureSlots[h].texture
               IN /\ threads'[t].ret = h
                  /\ textureSlots'[h].texture = threads[t].texture
                  /\ first.id \in TextureOrphans']_vars

\* Both threads were handed handle 0, slot 0 holds the texture of B, and the
\* texture of A is alive in no slot.
C24_Witness ==
  /\ \A t \in Threads :
       /\ threads[t].op = "LoadTextureToSlot"
       /\ threads[t].pc = "returned" /\ threads[t].ret = 0
  /\ textureSlots[0].texture = threads["B"].texture
  /\ threads["A"].texture.id \in TextureOrphans

\* C25: two UnloadTextureBySlot calls on one handle that run at the same time
\* can both pass the occupancy check.  A thread that has passed it calls
\* UnloadTexture on the texture of the slot whatever has happened since: when
\* the other thread has called it and not yet cleared the slot, the library
\* receives a second UnloadTexture for the same texture, which is no longer
\* alive.
C25_ConcurrentUnloadTwice ==
  [][\A t \in Threads :
       (threads[t].pc = "UnloadTexture" /\ threads'[t].pc = "clear")
        => LET h == threads[t].slotIndex
               id == textureSlots[h].texture.id
           IN /\ threads'[t].calls = <<NativeCall("UnloadTexture", id)>>
              /\ \A u \in Threads \ {t} :
                   (/\ threads[u].pc = "clear" /\ threads[u].slotIndex = h
                    /\ textureSlots[h].isLoaded)
                    => /\ threads[u].calls = threads'[t].calls
                       /\ id \notin live]_vars

\* Both threads have called UnloadTexture for the texture of slot 0.
C25_Witness ==
  /\ \A t \in Threads :
       /\ threads[t].op = "UnloadTextureBySlot"
       /\ threads[t].pc = "clear" /\ threads[t].slotIndex = 0
  /\ textureSlots[0].isLoaded /\ textureSlots[0].texture.id # 0
  /\ threads["A"].calls = <<NativeCall("UnloadTexture", textureSlots[0].texture.id)>>
  /\ threads["B"].calls = threads["A"].calls

(* ======================================================================= *)
(* Properties of WrapTextBySlot (SpecWrap)                                 *)
(* ======================================================================= *)
\* The arguments of the wrap call on record.
WrapText_text == call.args[1]
WrapText_fontSize == call.args[2]
WrapText_maxWidth == call.args[4]
WrapText_out == call.args[5]
WrapText_bufferSize == call.args[6]

\* An argument other than the handle is outside its domain.
WrapArgumentBad ==
  \/ WrapText_text = NullText
  \/ WrapText_out = NULL
  \/ WrapText_fontSize <= 0
  \/ WrapText_maxWidth <= 0
  \/ WrapText_bufferSize <= 0

\* The call on record is a wrap one of whose preconditions is violated / a
\* wrap with every precondition met, judged by the font table of this state.
WrapPreconditionViolated ==
  /\ call.op = "WrapTextBySlot"
  /\ \/ call.slot \notin 0..(MAX_FONTS - 1)
     \/ call.slot \notin OccupiedSlots("font")
     \/ WrapArgumentBad

WrapValid == call.op = "WrapTextBySlot" /\ ~WrapPreconditionViolated

\* The step is a wrap call that violates a precondition / meets them all,
\* judged by the font table the call finds.
WrapInvalidStep ==
  /\ call'.op = "WrapTextBySlot"
  /\ \/ call'.slot \notin 0..(MAX_FONTS - 1)
     \/ call'.slot \notin OccupiedSlots("font")
     \/ WrapArgumentBad'

WrapValidStep ==
  /\ call'.op = "WrapTextBySlot"
  /\ call'.slot \in OccupiedSlots("font")
  /\ ~WrapArgumentBad'

\* C11: WrapTextBySlot returns -1 whenever the handle is out of range or
\* Empty, text or outBuffer is NULL, or fontSize, maxWidth or bufferSize is
\* <= 0; this holds for an empty text too, and the failing call changes no
\* table.
C11_WrapInvalidArguments ==
  [][WrapInvalidStep => (ret' = -1 /\ UNCHANGED <<tables, live>>)]_vars

\* An empty text was wrapped with otherwise valid arguments and the handle of
\* an Empty slot, next to an occupied one, and the call failed.
C11_Witness ==
  /\ WrapPreconditionViolated
  /\ WrapText_text = <<>>
  /\ WrapText_out # NULL /\ WrapText_fontSize > 0 /\ WrapText_maxWidth > 0
  /\ WrapText_bufferSize > 0
  /\ call.slot = 1 /\ OccupiedSlots("font") = {0}
  /\ ret = -1

\* C12: a valid WrapTextBySlot call with an empty text writes the terminator
\* alone and returns 0 lines.
C12_WrapEmptyInput ==
  [][(WrapValidStep /\ WrapText_text' = <<>>) => (ret' = 0 /\ outBuffer' = <<0>>)]_vars

C12_Witness ==
  /\ WrapValid /\ WrapText_text = <<>>
  /\ ret = 0 /\ outBuffer = <<0>>

\* The text the call left in outBuffer, without the terminator written last.
WrapOutput == SubSeq(outBuffer, 1, Len(outBuffer) - 1)

\* The buffer is large enough for any wrapped form of the text.
WrapBufferLarge == WrapText_bufferSize >= 4 * (Len(WrapText_text) + 1)

\* The maximal runs of characters of text that are not in seps.
Segments(text, seps) ==
  {SubSeq(text, i, j) : <<i, j>> \in
     {p \in (1..Len(text)) \X (1..Len(text)) :
        /\ p[1] <= p[2]
        /\ \A k \in p[1]..p[2] : text[k] \notin seps
        /\ p[1] = 1 \/ text[p[1] - 1] \in seps
        /\ p[2] = Len(text) \/ text[p[2] + 1] \in seps}}

\* Width of a piece of text as the font of the call measures it.
MeasuredWidth(piece) ==
  MeasureTextEx(fontSlots[call.slot].font, piece, WrapText_fontSize, call.args[3])[1]

Occurrences(text, c) == Cardinality({k \in 1..Len(text) : text[k] = c})

\* C13: for a valid call with a large buffer, if every word of the input
\* measures narrower than maxWidth, every line of the output measures at most
\* maxWidth.
C13_WrapNoOverflow ==
  (/\ WrapValid /\ WrapBufferLarge
   /\ \A word \in Segments(WrapText_text, {32, 10}) :
        MeasuredWidth(word) < WrapText_maxWidth)
  => \A line \in Segments(WrapOutput, {10}) : MeasuredWidth(line) <= WrapText_maxWidth

\* "a" followed by a newline was wrapped at width 3, which "a" is narrower
\* than, and the output line is "aa".
C13_Witness ==
  /\ WrapValid /\ WrapBufferLarge
  /\ WrapText_text = <<97, 10>> /\ WrapText_maxWidth = 3
  /\ WrapOutput = <<97, 97, 10>>

\* C14: for a valid call with a large buffer whose text is one word wider
\* than maxWidth, the output without its line breaks is the word.
C14_WrapOversizedWord ==
  (/\ WrapValid /\ WrapBufferLarge
   /\ Segments(WrapText_text, {32, 10}) = {WrapText_text}
   /\ MeasuredWidth(WrapText_text) > WrapText_maxWidth)
  => SelectSeq(WrapOutput, LAMBDA c : c # 10) = WrapText_text

\* The word of WORD_BUFFER_SIZE characters was wrapped at a width narrower
\* than it, and the output has lost its last character.
C14_Witness ==
  /\ WrapValid /\ WrapBufferLarge
  /\ WrapText_text = LongWord
  /\ MeasuredWidth(LongWord) > WrapText_maxWidth
  /\ WrapOutput = SubSeq(LongWord, 1, WORD_BUFFER_SIZE - 1)

C16_WrapTerminatorReserved ==
  WrapValid
  => /\ Len(outBuffer) <= WrapText_bufferSize
     /\ outBuffer[Len(outBuffer)] = 0

\* "ab" was wrapped at width 1 into 3 bytes: the character loop wrote the
\* break and 'b' into the last two and the terminator went past them.
C16_Witness ==
  /\ WrapValid
  /\ WrapText_text = <<97, 98>> /\ WrapText_maxWidth = 1 /\ WrapText_bufferSize = 3
  /\ outBuffer = <<97, 10, 98, 0>>

\* The number of lines a text shows as: its line breaks, and one more if it
\* ends in something other than a break.
VisualLines(text) ==
  Occurrences(text, 10) + (IF text # <<>> /\ text[Len(text)] # 10 THEN 1 ELSE 0)

\* C17: the value a valid call returns is the number of visual lines of the
\* output, at every buffer size.
C17_WrapLineCount == WrapValid => ret = VisualLines(WrapOutput)

\* A wrap returned 3 lines: two breaks and a last line without one.
C17_Witness ==
  /\ WrapValid
  /\ ret = 3 /\ Occurrences(WrapOutput, 10) = 2
  /\ WrapOutput[Len(WrapOutput)] # 10

\* What the call on record writes into a buffer large enough for it.
WrapUnlimited ==
  WrapText(fontSlots[call.slot].font, WrapText_text, WrapText_fontSize, call.args[3],
           WrapText_maxWidth, 4 * (Len(WrapText_text) + 1)).out

IsPrefix(a, b) == Len(a) <= Len(b) /\ a = SubSeq(b, 1, Len(a))

\* C18: a valid call into a buffer too small for the wrapped text returns a
\* line count >= 0 and leaves a prefix of what it writes into a large buffer.
C18_WrapTruncation ==
  (WrapValid /\ WrapText_text # <<>>)
  => /\ ret >= 0
     /\ IsPrefix(WrapOutput, WrapUnlimited)

\* "aaa b" was wrapped into 3 bytes: "aaa" was left out and " b" written.
C18_Witness ==
  /\ WrapValid
  /\ WrapText_text = <<97, 97, 97, 32, 98>> /\ WrapText_bufferSize = 3
  /\ WrapUnlimited = <<97, 97, 97, 10, 98>>
  /\ WrapOutput = <<32, 98>> /\ ret = 1

\* The states of the main loop of a wrap: before its first pass and after each
\* pass, s = [i, out, lineCount, width, lineStartIndex].
RECURSIVE WrapTrace(_, _, _, _, _, _, _)
WrapTrace(font, text, fontSize, spacing, maxWidth, bufferSize, s) ==
  IF s.i < Len(text) /\ Len(s.out) < bufferSize - 1
  THEN <<s>> \o WrapTrace(font, text, fontSize, spacing, maxWidth, bufferSize,
                          WrapStep(font, text, fontSize, spacing, maxWidth, bufferSize, s))
  ELSE <<s>>

\* The loop states of the wrap on record, a valid one.
WrapFont == fontSlots[call.slot].font
WrapSpacing == call.args[3]

WrapPasses ==
  WrapTrace(WrapFont, WrapText_text, WrapText_fontSize, WrapSpacing, WrapText_maxWidth,
            WrapText_bufferSize,
            [i |-> 0, out |-> <<>>, lineCount |-> 0, width |-> 0, lineStartIndex |-> 0])

\* The passes that scan a word (the others take an explicit newline), by the
\* index of the state they start in.
WordPasses ==
  {k \in 1..(Len(WrapPasses) - 1) : WrapText_text[WrapPasses[k].i + 1] # 10}

\* The word a pass scans from state s: its end, the part of it that is
\* measured and copied, and the width measured.
PassWordEnd(s) == WordEnd(WrapText_text, s.i)

PassWord(s) ==
  LET wordLen == IF PassWordEnd(s) - s.i >= WORD_BUFFER_SIZE
                 THEN WORD_BUFFER_SIZE - 1 ELSE PassWordEnd(s) - s.i
  IN SubSeq(WrapText_text, s.i + 1, s.i + wordLen)

PassWordSize(s) == MeasureTextEx(WrapFont, PassWord(s), WrapText_fontSize, WrapSpacing)[1]

\* A space follows the word of the pass.
PassSpace(s) ==
  PassWordEnd(s) < Len(WrapText_text) /\ WrapText_text[PassWordEnd(s) + 1] = 32

\* s.out without one trailing space.
OneSpaceTrimmed(out) ==
  IF Len(out) > 0 /\ out[Len(out)] = 32 THEN SubSeq(out, 1, Len(out) - 1) ELSE out

\* The pass from s as far as the word, before the space after it: for a word
\* of some characters, what the pass would be were the word the end of the
\* text; for a word of none, s after the break that the width test asks for.
PassToWord(s) ==
  IF PassWordEnd(s) > s.i
  THEN WrapStep(WrapFont, SubSeq(WrapText_text, 1, PassWordEnd(s)), WrapText_fontSize,
                WrapSpacing, WrapText_maxWidth, WrapText_bufferSize, s)
  ELSE IF s.width > WrapText_maxWidth
  THEN [s EXCEPT !.out = Append(OneSpaceTrimmed(s.out), 10), !.width = 0]
  ELSE s

\* C26: the width test of WrapTextBySlot is strict.  A pass whose word brings
\* the line to at most maxWidth inserts no break and, when the buffer has room
\* for the word, places the word whole after what was written; a pass inserts
\* a break only when the sum is greater than maxWidth.
C26_WrapStrictTest ==
  WrapValid =>
    \A k \in WordPasses :
      LET s == WrapPasses[k]
          n == WrapPasses[k + 1]
      IN /\ s.width + PassWordSize(s) <= WrapText_maxWidth
              => /\ n.lineCount = s.lineCount
                 /\ IsPrefix(s.out, n.out)
                 /\ Len(s.out) + Len(PassWord(s)) < WrapText_bufferSize
                      => IsPrefix(s.out \o PassWord(s), n.out)
         /\ n.lineCount > s.lineCount
              => s.width + PassWordSize(s) > WrapText_maxWidth

\* "a a" at the width it measures: the second word brings the line to maxWidth
\* exactly and stays on it.
C26_Witness ==
  /\ WrapValid
  /\ WrapText_text = <<97, 32, 97>>
  /\ WrapText_maxWidth = MeasuredWidth(<<97, 32, 97>>)
  /\ WrapOutput = <<97, 32, 97>> /\ ret = 1

\* A text without a newline: every break in the output of its wrap was inserted.
NoExplicitBreak == Occurrences(WrapText_text, 10) = 0

\* The pass from s to n finds content on the line and a word too wide for
\* what is left of it: one trailing space at most is removed, the break is
\* written before the word, and the width of the line starts again from 0.
BreakBeforeWord(s, n) ==
  (s.width > 0 /\ s.width + PassWordSize(s) > WrapText_maxWidth)
    => /\ IsPrefix(Append(OneSpaceTrimmed(s.out), 10), n.out)
       /\ n.lineCount >= s.lineCount + 1
       /\ PassWordSize(s) <= WrapText_maxWidth
            => n.width \in {0, MeasuredWidth(<<32>>), PassWordSize(s),
                            PassWordSize(s) + MeasuredWidth(<<32>>)}

\* The pass from s to n finds the line at width 0: what it writes first is no
\* break.
NoBreakOnEmptyLine(s, n) ==
  s.width = 0
    => /\ IsPrefix(s.out, n.out)
       /\ Len(n.out) > Len(s.out) => n.out[Len(s.out) + 1] # 10
       /\ PassWordSize(s) <= WrapText_maxWidth => n.lineCount = s.lineCount

\* C27 as stated: when the line has content and the next word would exceed
\* maxWidth, the break goes before the word: one trailing space at most is
\* removed, a break is written, the width restarts at 0 and the word starts the
\* new line.  No break is inserted on an empty line, and no two inserted
\* breaks are adjacent.
C27_BreakBeforeNeverAdjacent ==
  WrapValid =>
    /\ \A k \in WordPasses :
         /\ BreakBeforeWord(WrapPasses[k], WrapPasses[k + 1])
         /\ NoBreakOnEmptyLine(WrapPasses[k], WrapPasses[k + 1])
    /\ NoExplicitBreak
         => \A k \in 1..(Len(WrapOutput) - 1) :
              ~(WrapOutput[k] = 10 /\ WrapOutput[k + 1] = 10)

\* C27, amended: the break goes before the word as stated, and no break is
\* inserted on a line of width 0: the line a break ends holds a character.
\* That character may be a lone space, which the break removes, so that two
\* inserted breaks can be adjacent.
C27_WrapBreakBefore ==
  WrapValid =>
    \A k \in WordPasses :
      LET s == WrapPasses[k]
          n == WrapPasses[k + 1]
      IN /\ BreakBeforeWord(s, n)
         /\ NoBreakOnEmptyLine(s, n)
         /\ (s.width > 0 /\ s.width + PassWordSize(s) > WrapText_maxWidth)
              => s.out # <<>> /\ s.out[Len(s.out)] # 10

\* "a  b" at the width of "a": the break before the second space and the
\* break before "b" stand side by side.
C27_Witness ==
  /\ WrapValid
  /\ WrapText_text = <<97, 32, 32, 98>>
  /\ WrapText_maxWidth = GlyphAdvance(97)
  /\ WrapOutput = <<97, 10, 10, 98>>

\* C28: every pass of the main loop of WrapTextBySlot moves the input cursor
\* on by at least one character, so the loop ends within as many passes as the
\* text has characters.
C28_WrapTerminates ==
  WrapValid =>
    /\ \A k \in 1..(Len(WrapPasses) - 1) :
         /\ WrapPasses[k + 1].i >= WrapPasses[k].i + 1
         /\ WrapPasses[k + 1].i <= Len(WrapText_text)
    /\ Len(WrapPasses) <= Len(WrapText_text) + 1

\* A wrap with a pass on a word of no characters (the second of two spaces)
\* and a pass on a word that the buffer has no room for.
C28_Witness ==
  /\ WrapValid
  /\ \E k \in WordPasses : PassWordEnd(WrapPasses[k]) = WrapPasses[k].i
  /\ \E k \in WordPasses :
       LET s == WrapPasses[k]
       IN /\ PassWord(s) # <<>>
          /\ PassWordSize(s) <= WrapText_maxWidth
          /\ Len(s.out) + Len(PassWord(s)) >= WrapText_bufferSize

\* C29: when a space follows the word and the buffer has room, the pass
\* appends one space to the output and adds its measured width to the width
\* of the line.
C29_WrapSpaceMeasured ==
  WrapValid =>
    \A k \in WordPasses :
      LET s == WrapPasses[k]
          b == PassToWord(s)
          n == WrapPasses[k + 1]
      IN (PassSpace(s) /\ Len(b.out) < WrapText_bufferSize - 1)
           => /\ n.out = Append(b.out, 32)
              /\ n.width = b.width
                   + MeasureTextEx(WrapFont, <<32>>, WrapText_fontSize, WrapSpacing)[1]
              /\ n.i = PassWordEnd(s) + 1

\* "a b" at the width of "ab": the space between the words is what takes "b"
\* to the next line.
C29_Witness ==
  /\ WrapValid
  /\ WrapText_text = <<97, 32, 98>>
  /\ WrapText_maxWidth = MeasuredWidth(<<97, 98>>)
  /\ WrapOutput = <<97, 10, 98>>

\* out is text with line breaks inserted, each inserted break taking the
\* place of at most one space of text: every other character of text, its
\* newlines included, is in out once and in order.
RECURSIVE ContentPreserved(_, _)
ContentPreserved(out, text) ==
  IF out = <<>> THEN text = <<>>
  ELSE \/ /\ text # <<>> /\ Head(out) = Head(text)
          /\ ContentPreserved(Tail(out), Tail(text))
       \/ /\ Head(out) = 10
          /\ ContentPreserved(Tail(out), text)
       \/ /\ Head(out) = 10
          /\ text # <<>> /\ Head(text) = 32
          /\ ContentPreserved(Tail(out), Tail(text))

\* C36 (wrap content preservation): for a valid call with a large buffer,
\* deleting the inserted line breaks from the output gives the input with its
\* newlines in place and at most one space removed at each wrap point: no
\* character is emitted twice or dropped, on lines that end with a newline and
\* in words of WORD_BUFFER_SIZE or more characters too.
C36_WrapContentPreserved ==
  (WrapValid /\ WrapBufferLarge) => ContentPreserved(WrapOutput, WrapText_text)

\* "b", newline, "a" was wrapped at a width that holds the whole text, and
\* the output has "b" twice before the newline.
C36_Witness ==
  /\ WrapValid /\ WrapBufferLarge
  /\ WrapText_text = <<98, 10, 97>> /\ WrapText_maxWidth = MaxWidth
  /\ WrapOutput = <<98, 98, 10, 97>>
  /\ ~ContentPreserved(WrapOutput, WrapText_text)

====
